---- MODULE Spec2Model ----
(***************************************************************************)
(* The streaming pipeline of the aggregator service: RandomSource,         *)
(* WorkerPool, PostgresRepository (batching flusher) and App.Run.          *)
(*                                                                         *)
(* Three specifications share one state:                                   *)
(*   SpecPool  the WorkerPool fed by a test producer and read by a         *)
(*             collector (tests/worker_pool_test.go);                      *)
(*   SpecRepo  the PostgresRepository called by concurrent Save and Close  *)
(*             callers, with its flusher goroutine and the database;       *)
(*   SpecApp   App.Run wiring source, pool, result consumer, repository.   *)
(***************************************************************************)
EXTENDS Integers, Sequences, FiniteSets, TLC

\* ------------------------------------------------------------------ bounds

\* Packets the test producer of the pool may send.
MaxPackets == 3
\* Packets the source may build in a run of the application.
MaxTicks == 2
\* Packets the source may build in a test of the source alone.
MaxSourceTicks == 8
\* Capacity of the packet channel between source and pool.
BufferSize == 2
\* Worker goroutines of the pool (the value given to NewWorkerPool).
WorkerCount == 2
\* Rows per flush (WithBatchSize) and the requested intake size (WithQueueSize).
BatchSize == 2
QueueSizeOpt == 2
\* Reductions passed to Save, Save calls and Close calls of a run.
MaxItems == 2
MaxSaves == 2
MaxCloses == 2
\* Flushes the database may fail with a transport error.
MaxFlushFail == 1
\* The callers of WorkerPool.Start.
MaxStarters == 3
\* Signals raised, and calls of the cancel function WithContext returned.
MaxSignals == 2
MaxCancelCalls == 2
\* GetByID and GetByTimeRange calls, and in-memory Save calls, of a run.
MaxReads == 1
MaxMemSaves == 2
\* Nanoseconds in the unit a TIMESTAMPTZ column keeps (the microsecond).
TimestamptzResolution == 1000

\* ------------------------------------------------------------------- data

None == "none"
Nil == <<"nil", 0>>
NoCtx == "nil"

\* Error values: a kind and a number (the number tells flush errors apart).
ErrRepositoryClosed == <<"closed", 0>>
CtxErr == <<"context", 0>>
FlushErr(n) == <<"flush", n>>
DbCloseErr == <<"dbclose", 0>>
Panic == <<"panic", 0>>

\* uuid.UUID.String: the canonical text form, one string per UUID.
UUIDString(u) == <<"uuid", u>>

RECURSIVE computeMaxFrom(_, _, _)
computeMaxFrom(payload, i, maxValue) ==
    IF i > Len(payload) THEN maxValue
    ELSE computeMaxFrom(payload, i + 1,
                        IF payload[i] > maxValue THEN payload[i] ELSE maxValue)

\* Mutant of computeMax: the first element instead of the largest.
computeMaxFirst(payload) ==
    IF Len(payload) = 0 THEN 0 ELSE payload[1]

computeMax(payload) ==
    IF Len(payload) = 0 THEN 0 ELSE computeMaxFrom(payload, 2, payload[1])

\* The payloads of the packets a producer emits, by emission number.
PayloadOf(k) ==
    CASE k % 4 = 1 -> <<1, 5, 3, 4>>
      [] k % 4 = 2 -> <<-10, -5, -7>>
      [] k % 4 = 3 -> <<>>
      [] OTHER     -> <<42>>

\* domain.DataPacket number k of a producer: fresh id, emission time, payload.
DataPacket(k) == [ID |-> k, Timestamp |-> k, Payload |-> PayloadOf(k)]

\* The value processPacket puts on the result channel.
PacketMaxOf(packet) ==
    [ID        |-> UUIDString(packet.ID),
     Timestamp |-> packet.Timestamp,
     MaxValue  |-> computeMax(packet.Payload)]

Workers == 1 .. WorkerCount
Savers == {1, 2}
Closers == {1, 2}

\* Contexts: Background is never cancelled; "run" is App.Run's runCtx, "cleanup"
\* its cleanupCtx; the others are the context a Save or Close caller passes.
Background == "background"
SaveCtx(s) == IF s = 1 THEN "save1" ELSE "save2"
CloseCtx(c) == IF c = 1 THEN "close1" ELSE "close2"

\* Instants are counted in nanoseconds, as time.Time does. A TIMESTAMPTZ
\* column keeps microseconds: the value bound to it loses what is below.
ToTimestamptz(t) == (t \div TimestamptzResolution) * TimestamptzResolution

\* The reductions Save callers pass: a packet id, and values that are new for
\* every reduction passed (the n-th one carries timestamp n us and max_value 10 n),
\* so that an id passed twice carries two versions.
PacketIds == {1, 2}
Reduction(id, v) ==
    [ID |-> UUIDString(id), Timestamp |-> v * TimestamptzResolution, MaxValue |-> 10 * v]
IdBatches(maxLen) == UNION {[1 .. n -> PacketIds] : n \in 0 .. maxLen}
BatchOf(ids, n) == [i \in 1 .. Len(ids) |-> Reduction(ids[i], n + i)]

\* ------------------------------------------------------------------ state

VARIABLES
    cancelled,      \* the contexts that are done
    \* RandomSource / test producer
    generated,      \* packets generated so far
    sourcePc,       \* "idle" | "tick" | "send" | "closed"
    packets,        \* the packet channel's buffer
    packetsClosed,  \* the packet channel is closed
    \* WorkerPool
    startCalls,     \* Start calls made
    workers,        \* per worker: pc and the result it holds
    results,        \* the result channel's buffer
    resultsCloses,  \* times close(wp.results) ran
    wpDone,         \* wp.done is closed
    received,       \* what the reader of Results() has received, in order
    \* PostgresRepository
    queue,          \* the intake channel's buffer
    queueCloses,    \* times close(r.queue) ran
    closing,        \* r.closing
    lastErr,        \* r.lastErr
    closeCtx,       \* r.closeCtx
    repoDone,       \* r.done is closed
    buffer,         \* run's local buffer
    dbCloses,       \* times db.Close ran
    rows,           \* table packet_max: id -> row
    savers,         \* per Save caller: the call in progress
    closers,        \* per Close caller: the call in progress
    \* history
    enqLog,         \* reductions put on the intake, in order
    flushLog,       \* the rows of the executed flushes in order, with the outcome
    passed,         \* the packet ids passed to Save calls (a set)
    nPassed,        \* the number of reductions passed to Save calls
    saveLog,        \* finished Save calls
    closeLog,       \* finished Close calls
    \* App
    consumer,       \* consumeResults goroutine
    app,            \* App.Run
    \* readers, and the in-memory repositories
    readLog,        \* finished GetByID and GetByTimeRange calls
    data,           \* the map of an in-memory repository: id -> reduction
    driver,         \* the repository ProvideRepository has built, if any
    \* a WorkerPool under construction and start
    wp,             \* the pool's fields: workerCount, results' capacity, startOnce
    starters,       \* the callers of Start
    \* a ShutdownManager and the goroutine of WithContext
    sm,             \* the signal channel, the watching goroutine, the cancel calls
    \* the options of NewRepository, and the stop-channel batcher
    cfg,            \* batchSize, flushInterval and the intake's capacity
    batcher         \* database.Repository: buffer channel, stop channel, callers

\* The callers of Start, and the pool before NewWorkerPool has built it.
Starters == 1 .. MaxStarters
NoPool == [built |-> FALSE, arg |-> 0, workerCount |-> 0, resultsCap |-> 0,
           startOnce |-> "new", winner |-> 0, spawned |-> <<>>, waiters |-> 0]

\* The ShutdownManager before NewShutdownManager has built it.
NoManager == [built |-> FALSE, notify |-> FALSE, cap |-> 0, pending |-> 0,
              raised |-> 0, watcher |-> "none", cancelCalls |-> 0]

ctxVars == <<cancelled>>
sourceVars == <<generated, sourcePc, packets, packetsClosed>>
poolVars == <<startCalls, workers, results, resultsCloses, wpDone>>
repoVars == <<queue, queueCloses, closing, lastErr, closeCtx, repoDone, buffer,
              dbCloses, rows, enqLog, flushLog>>
saveVars == <<savers, passed, nPassed, saveLog>>
closeVars == <<closers, closeLog>>
appVars == <<consumer, app>>
readVars == <<readLog, data, driver>>
startVars == <<wp, starters>>
shutdownVars == <<sm>>
configVars == <<cfg>>
batcherVars == <<batcher>>

vars == <<cancelled, generated, sourcePc, packets, packetsClosed, startCalls,
          workers, results, resultsCloses, wpDone, received, queue, queueCloses,
          closing, lastErr, closeCtx, repoDone, buffer, dbCloses, rows, savers,
          closers, enqLog, flushLog, passed, nPassed, saveLog, closeLog, consumer, app,
          readLog, data, driver, wp, starters, sm, cfg, batcher>>

IdleSaver == [pc |-> "idle", batch |-> <<>>, i |-> 1, ctx |-> Background,
              afterClose |-> FALSE]
IdleCloser == [pc |-> "idle", ctx |-> Background, won |-> FALSE, afterOk |-> FALSE]

\* The defaults of NewRepository; durations are in milliseconds.
defaultBatchSize == 100
defaultFlushInterval == 250
defaultQueueSize == defaultBatchSize * 4
Hour == 3600000

DefaultOptions == [batchSize     |-> defaultBatchSize,
                   flushInterval |-> defaultFlushInterval,
                   queueSize     |-> defaultQueueSize]

\* The options: each one changes its field for a positive argument only.
WithBatchSize(o, size) == IF size > 0 THEN [o EXCEPT !.batchSize = size] ELSE o

WithFlushInterval(o, interval) ==
    IF interval > 0 THEN [o EXCEPT !.flushInterval = interval] ELSE o

WithQueueSize(o, size) == IF size > 0 THEN [o EXCEPT !.queueSize = size] ELSE o

\* for _, opt := range opts { opt(&options) }
RECURSIVE ApplyOptions(_, _, _)
ApplyOptions(o, opts, i) ==
    IF i > Len(opts) THEN o
    ELSE ApplyOptions(CASE opts[i].kind = "batchSize" -> WithBatchSize(o, opts[i].value)
                        [] opts[i].kind = "flushInterval" -> WithFlushInterval(o, opts[i].value)
                        [] OTHER -> WithQueueSize(o, opts[i].value),
                      opts, i + 1)

\* NewRepository: the options applied to the defaults in the order given, the
\* queue size raised to the batch size, and the fields of the repository;
\* queueCap is the capacity of the intake channel.
NewRepository(opts) ==
    LET o == ApplyOptions(DefaultOptions, opts, 1)
    IN  [batchSize     |-> o.batchSize,
         flushInterval |-> o.flushInterval,
         queueCap      |-> IF o.queueSize < o.batchSize THEN o.batchSize ELSE o.queueSize,
         opts          |-> opts]

\* The options of TestPostgresRepositorySaveBatch.
TestOptions == <<[kind |-> "batchSize", value |-> BatchSize],
                 [kind |-> "queueSize", value |-> QueueSizeOpt],
                 [kind |-> "flushInterval", value |-> Hour]>>

\* The stop-channel batcher (database.Repository) before New has built it.
NoBatcher == [built |-> FALSE]

\* NewWorkerPool, NewRepository (its flusher started) and New: nothing has run.
Init ==
    /\ cfg = NewRepository(TestOptions)
    /\ batcher = NoBatcher
    /\ cancelled = {}
    /\ readLog = <<>>
    /\ data = [id \in {} |-> None]
    /\ driver = None
    /\ wp = NoPool
    /\ sm = NoManager
    /\ starters = [c \in Starters |-> [pc |-> "idle", packets |-> None, after |-> {}]]
    /\ generated = 0
    /\ sourcePc = "idle"
    /\ packets = <<>>
    /\ packetsClosed = FALSE
    /\ startCalls = 0
    /\ workers = [w \in Workers |-> [pc |-> "idle", held |-> None]]
    /\ results = <<>>
    /\ resultsCloses = 0
    /\ wpDone = FALSE
    /\ received = <<>>
    /\ queue = <<>>
    /\ queueCloses = 0
    /\ closing = 0
    /\ lastErr = Nil
    /\ closeCtx = NoCtx
    /\ repoDone = FALSE
    /\ buffer = <<>>
    /\ dbCloses = 0
    /\ rows = [id \in {} |-> None]
    /\ savers = [s \in Savers |-> IdleSaver]
    /\ closers = [c \in Closers |-> IdleCloser]
    /\ enqLog = <<>>
    /\ flushLog = <<>>
    /\ passed = {}
    /\ nPassed = 0
    /\ saveLog = <<>>
    /\ closeLog = <<>>
    /\ consumer = [pc |-> "idle", held |-> None, done |-> FALSE]
    /\ app = [pc |-> "init", shutdownRet |-> Nil, waitRet |-> Nil, expired |-> FALSE,
              atClose |-> <<>>, steps |-> <<>>, shutdownErr |-> Nil, ret |-> <<>>]

Done(ctx) == ctx \in cancelled

\* A context is cancelled (a cancel function, a signal, a deadline).
Cancel(ctx) ==
    /\ ctx \notin cancelled
    /\ cancelled' = cancelled \cup {ctx}
    /\ UNCHANGED <<readVars, startVars, shutdownVars, configVars, batcherVars, sourceVars, poolVars, received, repoVars, saveVars, closeVars,
                   appVars>>

\* ------------------------------------------------------------- WorkerPool

\* WorkerPool.Start: startOnce spawns the workers on the first call only.
StartPool ==
    /\ startCalls' = startCalls + 1
    /\ workers' = IF startCalls = 0
                  THEN [w \in Workers |-> [pc |-> "select", held |-> None]]
                  ELSE workers
    /\ UNCHANGED <<results, resultsCloses, wpDone>>

\* The test calls Start (a second call is a no-op).
Start ==
    /\ startCalls < 2
    /\ StartPool
    /\ UNCHANGED <<ctxVars, readVars, startVars, shutdownVars, configVars, batcherVars, sourceVars, received, repoVars, saveVars, closeVars,
                   appVars>>

\* worker's select, case packet := <-packets with ok: processPacket starts.
WorkerReceive(w) ==
    /\ workers[w].pc \in {"select", "drain"}
    /\ Len(packets) > 0
    /\ packets' = Tail(packets)
    /\ workers' = [workers EXCEPT ![w] =
                     [pc   |-> IF workers[w].pc = "select" THEN "publish"
                               ELSE "drainPublish",
                      held |-> PacketMaxOf(Head(packets))]]
    /\ UNCHANGED <<ctxVars, readVars, startVars, shutdownVars, configVars, batcherVars, generated, sourcePc, packetsClosed, startCalls,
                   results, resultsCloses, wpDone, received, repoVars, saveVars,
                   closeVars, appVars>>

\* publishResult: the blocking send on the result channel (capacity workerCount).
WorkerPublish(w) ==
    /\ workers[w].pc \in {"publish", "drainPublish"}
    /\ Len(results) < WorkerCount
    /\ resultsCloses = 0
    /\ results' = Append(results, workers[w].held)
    /\ workers' = [workers EXCEPT ![w] =
                     [pc   |-> IF workers[w].pc = "publish" THEN "select"
                               ELSE "drain",
                      held |-> None]]
    /\ UNCHANGED <<ctxVars, readVars, startVars, shutdownVars, configVars, batcherVars, sourceVars, startCalls, resultsCloses, wpDone,
                   received, repoVars, saveVars, closeVars, appVars>>

\* A worker that returns on cancellation without draining the packet channel.
WorkerCancelledNoDrain(w) ==
    /\ workers[w].pc = "select"
    /\ Done("run")
    /\ workers' = [workers EXCEPT ![w].pc = "returned"]
    /\ UNCHANGED <<ctxVars, readVars, startVars, shutdownVars, configVars, batcherVars, sourceVars, startCalls, results, resultsCloses,
                   wpDone, received, repoVars, saveVars, closeVars, appVars>>

\* worker's select, case <-ctx.Done(): the worker goes on in drainPackets.
WorkerCancelled(w) ==
    /\ workers[w].pc = "select"
    /\ Done("run")
    /\ workers' = [workers EXCEPT ![w].pc = "drain"]
    /\ UNCHANGED <<ctxVars, readVars, startVars, shutdownVars, configVars, batcherVars, sourceVars, startCalls, results, resultsCloses,
                   wpDone, received, repoVars, saveVars, closeVars, appVars>>

\* Mutant of WorkerReturn: drainPackets ends on an empty channel.
WorkerReturnOnEmpty(w) ==
    /\ workers[w].pc \in {"select", "drain"}
    /\ Len(packets) = 0
    /\ packetsClosed \/ workers[w].pc = "drain"
    /\ workers' = [workers EXCEPT ![w].pc = "returned"]
    /\ UNCHANGED <<ctxVars, readVars, startVars, shutdownVars, configVars, batcherVars, sourceVars, startCalls, results, resultsCloses,
                   wpDone, received, repoVars, saveVars, closeVars, appVars>>

\* The packet channel is closed and empty: the worker returns (wg.Done).
WorkerReturn(w) ==
    /\ workers[w].pc \in {"select", "drain"}
    /\ Len(packets) = 0
    /\ packetsClosed
    /\ workers' = [workers EXCEPT ![w].pc = "returned"]
    /\ UNCHANGED <<ctxVars, readVars, startVars, shutdownVars, configVars, batcherVars, sourceVars, startCalls, results, resultsCloses,
                   wpDone, received, repoVars, saveVars, closeVars, appVars>>

\* Mutant of PoolFinish: the waiter does not wait for every worker.
PoolFinishEarly ==
    /\ startCalls > 0
    /\ \E w \in Workers : workers[w].pc = "returned"
    /\ ~wpDone
    /\ resultsCloses' = resultsCloses + 1
    /\ wpDone' = TRUE
    /\ UNCHANGED <<ctxVars, readVars, startVars, shutdownVars, configVars, batcherVars, sourceVars, startCalls, workers, results, received,
                   repoVars, saveVars, closeVars, appVars>>

\* Start's waiter goroutine: wg.Wait, then finishOnce closes results and done.
PoolFinish ==
    /\ startCalls > 0
    /\ \A w \in Workers : workers[w].pc = "returned"
    /\ ~wpDone
    /\ resultsCloses' = resultsCloses + 1
    /\ wpDone' = TRUE
    /\ UNCHANGED <<ctxVars, readVars, startVars, shutdownVars, configVars, batcherVars, sourceVars, startCalls, workers, results, received,
                   repoVars, saveVars, closeVars, appVars>>

\* The producer of TestWorkerPoolShutdownProcessesAllPackets: input <- packet.
ProducerSend ==
    /\ ~packetsClosed
    /\ generated < MaxPackets
    /\ Len(packets) < BufferSize
    /\ generated' = generated + 1
    /\ packets' = Append(packets, DataPacket(generated + 1))
    /\ UNCHANGED <<ctxVars, readVars, startVars, shutdownVars, configVars, batcherVars, sourcePc, packetsClosed, poolVars, received, repoVars,
                   saveVars, closeVars, appVars>>

\* The producer closes the input.
ProducerClose ==
    /\ ~packetsClosed
    /\ packetsClosed' = TRUE
    /\ UNCHANGED <<ctxVars, readVars, startVars, shutdownVars, configVars, batcherVars, generated, sourcePc, packets, poolVars, received,
                   repoVars, saveVars, closeVars, appVars>>

\* The collector of the test: for range pool.Results().
CollectorReceive ==
    /\ Len(results) > 0
    /\ received' = Append(received, Head(results))
    /\ results' = Tail(results)
    /\ UNCHANGED <<ctxVars, readVars, startVars, shutdownVars, configVars, batcherVars, sourceVars, startCalls, workers, resultsCloses,
                   wpDone, repoVars, saveVars, closeVars, appVars>>

NextPool ==
    \/ Start
    \/ \E w \in Workers : WorkerReceive(w)
    \/ \E w \in Workers : WorkerPublish(w)
    \/ \E w \in Workers : WorkerCancelled(w)
    \/ \E w \in Workers : WorkerReturn(w)
    \/ PoolFinish
    \/ ProducerSend
    \/ ProducerClose
    \/ CollectorReceive
    \/ Cancel("run")

SpecPool == Init /\ [][NextPool]_vars

\* --------------------------------------------------- claims on WorkerPool

\* The reductions put on the result channel so far, in order.
Published == received \o results
\* Where packet k is: in the packet channel, in a worker, or published.
PlacesOf(k) ==
    Cardinality({i \in 1 .. Len(packets) : packets[i] = DataPacket(k)})
    + Cardinality({w \in Workers :
                     /\ workers[w].pc \in {"publish", "drainPublish"}
                     /\ workers[w].held = PacketMaxOf(DataPacket(k))})
    + Cardinality({i \in 1 .. Len(Published) :
                     Published[i] = PacketMaxOf(DataPacket(k))})

\* C1: every packet sent on the input is at all times in exactly one place
\* (the channel, one worker, or the result channel once), and when the pool
\* has closed the result channel, which it does once, the reductions put on
\* it are exactly one per packet sent, whenever the context was cancelled.
C1_PoolDrain ==
    /\ \A k \in 1 .. generated : PlacesOf(k) = 1
    /\ resultsCloses <= 1
    /\ resultsCloses = 1 =>
          /\ packetsClosed
          /\ Len(Published) = generated
          /\ \A k \in 1 .. generated :
                \E i \in 1 .. Len(Published) :
                    /\ Published[i] = PacketMaxOf(DataPacket(k))
                    /\ \A j \in 1 .. Len(Published) :
                          Published[j].ID = Published[i].ID => j = i

\* The context was cancelled, the pool closed the result channel and the
\* collector has read the reductions of all the packets.
C1_Witness ==
    /\ Done("run")
    /\ wpDone
    /\ generated = MaxPackets
    /\ Len(received) = MaxPackets

\* The largest element of a payload, 0 for the empty payload.
MaxOfPayload(payload) ==
    IF Len(payload) = 0 THEN 0
    ELSE CHOOSE m \in {payload[i] : i \in 1 .. Len(payload)} :
             \A i \in 1 .. Len(payload) : payload[i] <= m

\* The reductions the workers have built: published, or held for publishing.
Built ==
    {Published[i] : i \in 1 .. Len(Published)}
      \cup {workers[w].held :
               w \in {v \in Workers : workers[v].pc \in {"publish", "drainPublish"}}}

\* C11: every reduction a worker builds is that of one packet sent to the
\* pool: the packet's id in text form, the packet's timestamp, and the largest
\* element of the packet's payload, 0 when the payload is empty.
C11_ReductionOfPacket ==
    \A r \in Built :
        \E k \in 1 .. generated :
            /\ r.ID = UUIDString(DataPacket(k).ID)
            /\ r.Timestamp = DataPacket(k).Timestamp
            /\ r.MaxValue = MaxOfPayload(DataPacket(k).Payload)

\* Two workers have published concurrently, a payload whose largest element
\* is not the first one, a negative one and the empty one among them.
C11_Witness ==
    /\ Len(Published) = 3
    /\ \E i \in 1 .. 3 : Published[i].MaxValue = 5
    /\ \E i \in 1 .. 3 : Published[i].MaxValue = -5
    /\ \E i \in 1 .. 3 : Published[i].MaxValue = 0 /\ Published[i].ID = UUIDString(3)
    /\ Published[1].ID /= UUIDString(1)

\* ------------------------------------------------------ PostgresRepository

\* NewRepository: the intake is never smaller than a batch.
QueueSize == IF QueueSizeOpt < BatchSize THEN BatchSize ELSE QueueSizeOpt

\* The columns of one VALUES tuple.
ParamsPerRow == 3

\* buildInsert: per reduction i (from 0), in batch order, one VALUES tuple
\* ($base,$base+1,$base+2) with base = i*3 + 1, and three arguments appended:
\* the id, the timestamp (converted to UTC, the same instant) and the maximum;
\* then the ON CONFLICT (id) DO UPDATE clause.
buildInsert(batch) ==
    [placeholders |-> [i \in 1 .. Len(batch) |->
                         LET base == (i - 1) * ParamsPerRow + 1
                         IN  <<base, base + 1, base + 2>>],
     args         |-> [k \in 1 .. Len(batch) * ParamsPerRow |->
                         LET packet == batch[((k - 1) \div ParamsPerRow) + 1]
                         IN  CASE (k - 1) % ParamsPerRow = 0 -> packet.ID
                               [] (k - 1) % ParamsPerRow = 1 -> packet.Timestamp
                               [] OTHER                      -> packet.MaxValue],
     onConflict   |-> "update"]

\* The VALUES tuples the database sees: $n is the n-th argument.
BoundValues(stmt) ==
    [i \in 1 .. Len(stmt.placeholders) |->
        [c \in 1 .. Len(stmt.placeholders[i]) |-> stmt.args[stmt.placeholders[i][c]]]]

\* PostgreSQL refuses an INSERT ... ON CONFLICT DO UPDATE that would affect one
\* row twice (two VALUES tuples with the same id): cardinality violation.
AffectsRowTwice(stmt) ==
    LET values == BoundValues(stmt)
    IN  \E i, j \in 1 .. Len(values) : i < j /\ values[i][1] = values[j][1]

RECURSIVE ApplyValues(_, _, _)
ApplyValues(table, values, i) ==
    IF i > Len(values) THEN table
    ELSE ApplyValues(
             [id \in DOMAIN table \cup {values[i][1]} |->
                 IF id = values[i][1]
                 THEN [Timestamp |-> ToTimestamptz(values[i][2]),
                       MaxValue  |-> values[i][3]]
                 ELSE table[id]],
             values, i + 1)

\* The table after the statement executed: SET timestamp, max_value = EXCLUDED.
ExecUpsert(table, stmt) == ApplyValues(table, BoundValues(stmt), 1)

\* Mutant of FlushContext: every flush runs under context.Background().
FlushContextBackground == Background

\* getFlushContext, with flush's fallback to context.Background().
FlushContext == IF closeCtx = NoCtx THEN Background ELSE closeCtx

TransportFailures ==
    Cardinality({i \in 1 .. Len(flushLog) :
                   flushLog[i].outcome = "transport" /\ flushLog[i].first})

\* What db.ExecContext can answer for a batch: a done context and a statement
\* the database refuses fail; otherwise it succeeds or fails in transport.
ExecOutcomes(batch) ==
    IF Done(FlushContext) THEN {"context"}
    ELSE IF AffectsRowTwice(buildInsert(batch)) THEN {"cardinality"}
    ELSE {"ok"} \cup (IF TransportFailures < MaxFlushFail THEN {"transport"} ELSE {})

\* Mutant of setLastError: the slot takes every error.
setLastErrorAlways(err) == IF lastErr = Nil THEN err ELSE err

\* setLastError: only an empty slot takes the error.
setLastError(err) == IF lastErr = Nil THEN err ELSE lastErr

\* Mutant of flushAndReset: a batch whose flush failed stays in the buffer.
flushAndResetKeep(buf, outcome, by) ==
    IF Len(buf) = 0
    THEN /\ buffer' = buf
         /\ UNCHANGED <<rows, lastErr, flushLog>>
    ELSE /\ outcome \in ExecOutcomes(buf)
         /\ flushLog' = flushLog \o [i \in 1 .. Len(buf) |->
                                       [r |-> buf[i], outcome |-> outcome,
                                        first |-> i = 1, by |-> by]]
         /\ IF outcome = "ok"
            THEN /\ rows' = ExecUpsert(rows, buildInsert(buf))
                 /\ buffer' = <<>>
                 /\ UNCHANGED lastErr
            ELSE /\ lastErr' = setLastError(FlushErr(Len(flushLog) + 1))
                 /\ buffer' = buf
                 /\ UNCHANGED rows

\* flushAndReset of buffer buf with the database answering outcome; by is the
\* case of run that flushes ("size", "tick" or "closed").
flushAndReset(buf, outcome, by) ==
    IF Len(buf) = 0
    THEN /\ buffer' = buf
         /\ UNCHANGED <<rows, lastErr, flushLog>>
    ELSE /\ outcome \in ExecOutcomes(buf)
         /\ buffer' = <<>>
         /\ flushLog' = flushLog \o [i \in 1 .. Len(buf) |->
                                       [r |-> buf[i], outcome |-> outcome,
                                        first |-> i = 1, by |-> by]]
         /\ IF outcome = "ok"
            THEN /\ rows' = ExecUpsert(rows, buildInsert(buf))
                 /\ UNCHANGED lastErr
            ELSE /\ lastErr' = setLastError(FlushErr(Len(flushLog) + 1))
                 /\ UNCHANGED rows

Outcomes == {"ok", "transport", "context", "cardinality"}

\* Mutant of FlusherReceive: the buffer is flushed once it holds more than
\* batchSize reductions.
FlusherReceiveLate(outcome) ==
    /\ ~repoDone
    /\ Len(queue) > 0
    /\ queue' = Tail(queue)
    /\ LET buf == Append(buffer, Head(queue)) IN
         IF Len(buf) > BatchSize
         THEN flushAndReset(buf, outcome, "size")
         ELSE /\ outcome = "ok"
              /\ buffer' = buf
              /\ UNCHANGED <<rows, lastErr, flushLog>>
    /\ UNCHANGED <<ctxVars, readVars, startVars, shutdownVars, configVars, batcherVars, sourceVars, poolVars, received, queueCloses, closing,
                   closeCtx, repoDone, dbCloses, enqLog, saveVars, closeVars,
                   appVars>>

\* Mutant of FlusherReceive: the received reduction goes to the front of the
\* buffer.
FlusherReceiveFront(outcome) ==
    /\ ~repoDone
    /\ Len(queue) > 0
    /\ queue' = Tail(queue)
    /\ LET buf == <<Head(queue)>> \o buffer IN
         IF Len(buf) >= BatchSize
         THEN flushAndReset(buf, outcome, "size")
         ELSE /\ outcome = "ok"
              /\ buffer' = buf
              /\ UNCHANGED <<rows, lastErr, flushLog>>
    /\ UNCHANGED <<ctxVars, readVars, startVars, shutdownVars, configVars, batcherVars, sourceVars, poolVars, received, queueCloses, closing,
                   closeCtx, repoDone, dbCloses, enqLog, saveVars, closeVars,
                   appVars>>

\* run, case packet, ok := <-r.queue with ok: append, flush a full buffer.
FlusherReceive(outcome) ==
    /\ ~repoDone
    /\ Len(queue) > 0
    /\ queue' = Tail(queue)
    /\ LET buf == Append(buffer, Head(queue)) IN
         IF Len(buf) >= BatchSize
         THEN flushAndReset(buf, outcome, "size")
         ELSE /\ outcome = "ok"
              /\ buffer' = buf
              /\ UNCHANGED <<rows, lastErr, flushLog>>
    /\ UNCHANGED <<ctxVars, readVars, startVars, shutdownVars, configVars, batcherVars, sourceVars, poolVars, received, queueCloses, closing,
                   closeCtx, repoDone, dbCloses, enqLog, saveVars, closeVars,
                   appVars>>

\* Mutant of FlusherTick: the tick leaves the buffer as it is.
FlusherTickIdle(outcome) ==
    /\ ~repoDone
    /\ cfg.flushInterval > 0
    /\ outcome = "ok"
    /\ UNCHANGED vars

\* run, case <-tickerCh: the ticker is made when flushInterval > 0 only, and
\* a nil tickerCh is never ready.
FlusherTick(outcome) ==
    /\ ~repoDone
    /\ cfg.flushInterval > 0
    /\ IF Len(buffer) = 0 THEN outcome = "ok" ELSE TRUE
    /\ flushAndReset(buffer, outcome, "tick")
    /\ UNCHANGED <<ctxVars, readVars, startVars, shutdownVars, configVars, batcherVars, sourceVars, poolVars, received, queue, queueCloses,
                   closing, closeCtx, repoDone, dbCloses, enqLog, saveVars,
                   closeVars, appVars>>

\* Mutant of FlusherClosed: run returns without the final flush.
FlusherClosedNoFlush(outcome) ==
    /\ ~repoDone
    /\ Len(queue) = 0
    /\ queueCloses > 0
    /\ outcome = "ok"
    /\ repoDone' = TRUE
    /\ UNCHANGED <<ctxVars, readVars, startVars, shutdownVars, configVars, batcherVars, sourceVars, poolVars, received, queue, queueCloses,
                   closing, closeCtx, dbCloses, enqLog, saveVars, closeVars,
                   appVars, buffer, rows, lastErr, flushLog>>

\* run, case <-r.queue with !ok: the final flush, then the deferred close(r.done).
FlusherClosed(outcome) ==
    /\ ~repoDone
    /\ Len(queue) = 0
    /\ queueCloses > 0
    /\ IF Len(buffer) = 0 THEN outcome = "ok" ELSE TRUE
    /\ flushAndReset(buffer, outcome, "closed")
    /\ repoDone' = TRUE
    /\ UNCHANGED <<ctxVars, readVars, startVars, shutdownVars, configVars, batcherVars, sourceVars, poolVars, received, queue, queueCloses,
                   closing, closeCtx, dbCloses, enqLog, saveVars, closeVars,
                   appVars>>

SaveCalls == Len(saveLog) + Cardinality({s \in Savers : savers[s].pc /= "idle"})

\* A Save call of saver s returns ret: the call is logged, the saver is free
\* (its next call comes with a context of its own).
SaveReturns(s, ret) ==
    /\ saveLog' = Append(saveLog, [len |-> Len(savers[s].batch),
                                   sent |-> savers[s].i - 1, ret |-> ret,
                                   afterClose |-> savers[s].afterClose,
                                   batch |-> savers[s].batch])
    /\ savers' = [savers EXCEPT ![s] = IdleSaver]

\* Mutant of SaveBegin: the closing check is missing.
SaveBeginNoClosingCheck(s, batch, ctx) ==
    /\ savers[s].pc = "idle"
    /\ passed' = passed \cup {batch[i].ID : i \in 1 .. Len(batch)}
    /\ nPassed' = nPassed + Len(batch)
    /\ IF Len(batch) = 0
       THEN /\ saveLog' = Append(saveLog, [len |-> 0, sent |-> 0, ret |-> Nil,
                                           afterClose |-> closing = 1,
                                           batch |-> batch])
            /\ UNCHANGED savers
       ELSE /\ savers' = [savers EXCEPT ![s] =
                            [pc |-> "getLastError", batch |-> batch, i |-> 1,
                             ctx |-> ctx, afterClose |-> closing = 1]]
            /\ UNCHANGED saveLog
    /\ UNCHANGED <<ctxVars, readVars, startVars, shutdownVars, configVars, batcherVars, sourceVars, poolVars, received, repoVars, closeVars>>

\* Save, lines 115-122: the empty batch and the closing check.
SaveBegin(s, batch, ctx) ==
    /\ savers[s].pc = "idle"
    /\ passed' = passed \cup {batch[i].ID : i \in 1 .. Len(batch)}
    /\ nPassed' = nPassed + Len(batch)
    /\ IF Len(batch) = 0
       THEN /\ saveLog' = Append(saveLog, [len |-> 0, sent |-> 0, ret |-> Nil,
                                           afterClose |-> closing = 1,
                                           batch |-> batch])
            /\ UNCHANGED savers
       ELSE IF closing = 1
       THEN /\ saveLog' = Append(saveLog, [len |-> Len(batch), sent |-> 0,
                                           ret |-> ErrRepositoryClosed,
                                           afterClose |-> TRUE,
                                           batch |-> batch])
            /\ UNCHANGED savers
       ELSE /\ savers' = [savers EXCEPT ![s] =
                            [pc |-> "getLastError", batch |-> batch, i |-> 1,
                             ctx |-> ctx, afterClose |-> closing = 1]]
            /\ UNCHANGED saveLog
    /\ UNCHANGED <<ctxVars, readVars, startVars, shutdownVars, configVars, batcherVars, sourceVars, poolVars, received, repoVars, closeVars>>

\* getLastError: the slot is read under the mutex and left as it is.
getLastError == lastErr

\* Save, lines 124-126: a latched error is returned before anything is sent.
SaveCheckError(s) ==
    /\ savers[s].pc = "getLastError"
    /\ IF getLastError /= Nil
       THEN SaveReturns(s, getLastError)
       ELSE /\ savers' = [savers EXCEPT ![s].pc = "send"]
            /\ UNCHANGED saveLog
    /\ UNCHANGED <<ctxVars, readVars, startVars, shutdownVars, configVars, batcherVars, sourceVars, poolVars, received, repoVars, passed, nPassed,
                   closeVars, appVars>>

\* Save, line 132: r.queue <- packets[i].
SaveSend(s) ==
    /\ savers[s].pc = "send"
    /\ queueCloses = 0
    /\ Len(queue) < QueueSize
    /\ queue' = Append(queue, savers[s].batch[savers[s].i])
    /\ enqLog' = Append(enqLog, savers[s].batch[savers[s].i])
    /\ savers' = [savers EXCEPT ![s].i = @ + 1,
                                ![s].pc = IF savers[s].i = Len(savers[s].batch)
                                          THEN "finalError" ELSE "send"]
    /\ UNCHANGED <<ctxVars, readVars, startVars, shutdownVars, configVars, batcherVars, sourceVars, poolVars, received, queueCloses, closing,
                   lastErr, closeCtx, repoDone, buffer, dbCloses, rows, flushLog,
                   passed, nPassed, saveLog, closeVars, appVars>>

\* Mutant of SaveCancelled: the pending item is sent before the context's
\* error is returned.
SaveCancelledAfterSend(s) ==
    /\ savers[s].pc = "send"
    /\ savers[s].ctx /= Background
    /\ savers[s].ctx = SaveCtx(s) \/ Done(savers[s].ctx)
    /\ queue' = Append(queue, savers[s].batch[savers[s].i])
    /\ enqLog' = Append(enqLog, savers[s].batch[savers[s].i])
    /\ SaveReturns(s, CtxErr)
    /\ UNCHANGED <<ctxVars, readVars, startVars, shutdownVars, configVars, batcherVars, sourceVars, poolVars, received, queueCloses, closing,
                   lastErr, closeCtx, repoDone, buffer, dbCloses, rows, flushLog,
                   passed, nPassed, closeVars, appVars>>

\* Save, line 130: <-ctx.Done() wins the select. A caller's own context may be
\* cancelled at any moment of the call; "run" is cancelled by Cancel.
SaveCancelled(s) ==
    /\ savers[s].pc = "send"
    /\ savers[s].ctx /= Background
    /\ savers[s].ctx = SaveCtx(s) \/ Done(savers[s].ctx)
    /\ SaveReturns(s, CtxErr)
    /\ UNCHANGED <<ctxVars, readVars, startVars, shutdownVars, configVars, batcherVars, sourceVars, poolVars, received, repoVars, passed, nPassed,
                   closeVars, appVars>>

\* Save, line 132 on a closed intake: send on closed channel panics.
SavePanics(s) ==
    /\ savers[s].pc = "send"
    /\ queueCloses > 0
    /\ SaveReturns(s, Panic)
    /\ UNCHANGED <<ctxVars, readVars, startVars, shutdownVars, configVars, batcherVars, sourceVars, poolVars, received, repoVars, passed, nPassed,
                   closeVars, appVars>>

\* Save, line 136: return r.getLastError().
SaveFinish(s) ==
    /\ savers[s].pc = "finalError"
    /\ SaveReturns(s, getLastError)
    /\ UNCHANGED <<ctxVars, readVars, startVars, shutdownVars, configVars, batcherVars, sourceVars, poolVars, received, repoVars, passed, nPassed,
                   closeVars, appVars>>

CloseCalls == Len(closeLog) + Cardinality({c \in Closers : closers[c].pc /= "idle"})

\* A Close call of closer c returns ret.
CloseReturns(c, ret) ==
    /\ closeLog' = Append(closeLog, [ret |-> ret, won |-> closers[c].won,
                                     afterOk |-> closers[c].afterOk])
    /\ closers' = [closers EXCEPT ![c] = IdleCloser]

\* Mutant of CloseBegin: a plain store instead of the compare-and-swap, so
\* every caller takes the winner's path.
CloseBeginNoCAS(c, ctx) ==
    /\ closers[c].pc = "idle"
    /\ closing' = 1
    /\ closers' = [closers EXCEPT ![c] =
                     [pc      |-> "closeQueue",
                      ctx     |-> ctx,
                      won     |-> TRUE,
                      afterOk |-> \E i \in 1 .. Len(closeLog) : closeLog[i].ret = Nil]]
    /\ UNCHANGED <<ctxVars, readVars, startVars, shutdownVars, configVars, batcherVars, sourceVars, poolVars, received, queue, queueCloses,
                   lastErr, closeCtx, repoDone, buffer, dbCloses, rows, enqLog,
                   flushLog, saveVars, closeLog>>

\* Close, line 177: atomic.CompareAndSwapUint32(&r.closing, 0, 1).
CloseBegin(c, ctx) ==
    /\ closers[c].pc = "idle"
    /\ closing' = 1
    /\ closers' = [closers EXCEPT ![c] =
                     [pc      |-> IF closing = 0 THEN "closeQueue" ELSE "wait",
                      ctx     |-> ctx,
                      won     |-> closing = 0,
                      afterOk |-> \E i \in 1 .. Len(closeLog) : closeLog[i].ret = Nil]]
    /\ UNCHANGED <<ctxVars, readVars, startVars, shutdownVars, configVars, batcherVars, sourceVars, poolVars, received, queue, queueCloses,
                   lastErr, closeCtx, repoDone, buffer, dbCloses, rows, enqLog,
                   flushLog, saveVars, closeLog>>

\* setCloseContext: the first context stays.
setCloseContext(ctx) == IF closeCtx = NoCtx THEN ctx ELSE closeCtx

\* closeOnce has run its function.
closeOnceDone == queueCloses > 0

\* dbCloseOnce has run its function.
dbCloseOnceDone == dbCloses > 0

\* Close, lines 186-189: setCloseContext, then closeOnce closes the intake.
CloseQueue(c) ==
    /\ closers[c].pc = "closeQueue"
    /\ closeCtx' = setCloseContext(closers[c].ctx)
    /\ queueCloses' = IF closeOnceDone THEN queueCloses ELSE queueCloses + 1
    /\ closers' = [closers EXCEPT ![c].pc = "wait"]
    /\ UNCHANGED <<ctxVars, readVars, startVars, shutdownVars, configVars, batcherVars, sourceVars, poolVars, received, queue, closing, lastErr,
                   repoDone, buffer, dbCloses, rows, enqLog, flushLog, saveVars,
                   closeLog, appVars>>

\* Mutant of CloseDB: db.Close runs without the dbCloseOnce guard.
CloseDBNoOnce(c, err) ==
    /\ closers[c].pc = "wait"
    /\ repoDone
    /\ dbCloses' = dbCloses + 1
    /\ CloseReturns(c, err)
    /\ UNCHANGED <<ctxVars, readVars, startVars, shutdownVars, configVars, batcherVars, sourceVars, poolVars, received, queue, queueCloses,
                   closing, lastErr, closeCtx, repoDone, buffer, rows, enqLog,
                   flushLog, saveVars, appVars>>

\* Close's select, case <-r.done: closeDB, where dbCloseOnce runs db.Close once
\* and only that call sees db.Close's error.
CloseDB(c, err) ==
    /\ closers[c].pc = "wait"
    /\ repoDone
    /\ IF dbCloseOnceDone
       THEN /\ err = Nil
            /\ UNCHANGED dbCloses
       ELSE dbCloses' = dbCloses + 1
    /\ CloseReturns(c, err)
    /\ UNCHANGED <<ctxVars, readVars, startVars, shutdownVars, configVars, batcherVars, sourceVars, poolVars, received, queue, queueCloses,
                   closing, lastErr, closeCtx, repoDone, buffer, rows, enqLog,
                   flushLog, saveVars, appVars>>

\* Mutant of CloseCancelled: the call releases the connection on its way out
\* although it has not observed the flusher's exit.
CloseCancelledReleasing(c) ==
    /\ closers[c].pc = "wait"
    /\ Done(closers[c].ctx)
    /\ dbCloses' = IF dbCloseOnceDone THEN dbCloses ELSE dbCloses + 1
    /\ CloseReturns(c, CtxErr)
    /\ UNCHANGED <<ctxVars, readVars, startVars, shutdownVars, configVars, batcherVars, sourceVars, poolVars, received, queue, queueCloses,
                   closing, lastErr, closeCtx, repoDone, buffer, rows, enqLog,
                   flushLog, saveVars, appVars>>

\* Close's select, case <-ctx.Done().
CloseCancelled(c) ==
    /\ closers[c].pc = "wait"
    /\ Done(closers[c].ctx)
    /\ UNCHANGED dbCloses
    /\ CloseReturns(c, CtxErr)
    /\ UNCHANGED <<ctxVars, readVars, startVars, shutdownVars, configVars, batcherVars, sourceVars, poolVars, received, queue, queueCloses,
                   closing, lastErr, closeCtx, repoDone, buffer, rows, enqLog,
                   flushLog, saveVars, appVars>>

\* A caller of Save (a test, a handler): any batch, its own context.
CallSave(s, ids) ==
    /\ SaveCalls < MaxSaves
    /\ \A t \in Savers : t < s => savers[t].pc /= "idle"
    /\ SaveBegin(s, BatchOf(ids, nPassed), SaveCtx(s))
    /\ UNCHANGED appVars

\* The deadline of a waiting Close call expires.
CancelClose(c) ==
    /\ closers[c].pc = "wait"
    /\ Cancel(CloseCtx(c))

\* A caller of Close with its own deadline context.
CallClose(c) ==
    /\ CloseCalls < MaxCloses
    /\ \A d \in Closers : d < c => closers[d].pc /= "idle"
    /\ CloseBegin(c, CloseCtx(c))
    /\ UNCHANGED appVars

NextRepo ==
    \/ \E s \in Savers, ids \in IdBatches(MaxItems - nPassed) : CallSave(s, ids)
    \/ \E s \in Savers : SaveCheckError(s)
    \/ \E s \in Savers : SaveSend(s)
    \/ \E s \in Savers : SaveCancelled(s)
    \/ \E s \in Savers : SavePanics(s)
    \/ \E s \in Savers : SaveFinish(s)
    \/ \E c \in Closers : CallClose(c)
    \/ \E c \in Closers : CloseQueue(c)
    \/ \E c \in Closers, err \in {Nil, DbCloseErr} : CloseDB(c, err)
    \/ \E c \in Closers : CloseCancelled(c)
    \/ \E outcome \in Outcomes : FlusherReceive(outcome)
    \/ \E outcome \in Outcomes : FlusherTick(outcome)
    \/ \E outcome \in Outcomes : FlusherClosed(outcome)
    \/ \E c \in Closers : CancelClose(c)

SpecRepo == Init /\ [][NextRepo]_vars

\* ------------------------------------------------------------ RandomSource

\* Start's goroutine, outer select, case <-ticker.C: a packet is built (the
\* ticker fires at most maxTicks times in a run).
SourceTick(maxTicks) ==
    /\ sourcePc = "select"
    /\ generated < maxTicks
    /\ sourcePc' = "send"
    /\ UNCHANGED <<ctxVars, readVars, startVars, shutdownVars, configVars, batcherVars, generated, packets, packetsClosed, poolVars, received,
                   repoVars, saveVars, closeVars, appVars>>

\* Mutant of SourceSend: a packet that finds the channel full is dropped.
SourceSendDropping ==
    /\ sourcePc = "send"
    /\ packets' = IF Len(packets) < BufferSize
                  THEN Append(packets, DataPacket(generated + 1))
                  ELSE packets
    /\ generated' = generated + 1
    /\ sourcePc' = "select"
    /\ UNCHANGED <<ctxVars, readVars, startVars, shutdownVars, configVars, batcherVars, packetsClosed, poolVars, received, repoVars, saveVars,
                   closeVars, appVars>>

\* Inner select, case out <- packet.
SourceSend ==
    /\ sourcePc = "send"
    /\ Len(packets) < BufferSize
    /\ packets' = Append(packets, DataPacket(generated + 1))
    /\ generated' = generated + 1
    /\ sourcePc' = "select"
    /\ UNCHANGED <<ctxVars, readVars, startVars, shutdownVars, configVars, batcherVars, packetsClosed, poolVars, received, repoVars, saveVars,
                   closeVars, appVars>>

\* Mutant of SourceCancelled: the goroutine returns without closing out.
SourceCancelledNoClose ==
    /\ sourcePc \in {"select", "send"}
    /\ Done("run")
    /\ sourcePc' = "closed"
    /\ UNCHANGED <<ctxVars, readVars, startVars, shutdownVars, configVars, batcherVars, generated, packets, packetsClosed, poolVars, received,
                   repoVars, saveVars, closeVars, appVars>>

\* Either select, case <-ctx.Done(): return; the deferred close(out). A packet
\* built but not sent is dropped.
SourceCancelled ==
    /\ sourcePc \in {"select", "send"}
    /\ Done("run")
    /\ sourcePc' = "closed"
    /\ packetsClosed' = TRUE
    /\ UNCHANGED <<ctxVars, readVars, startVars, shutdownVars, configVars, batcherVars, generated, packets, poolVars, received, repoVars,
                   saveVars, closeVars, appVars>>

\* The tests of the source: source.Start(ctx).
TestSourceStart ==
    /\ sourcePc = "idle"
    /\ sourcePc' = "select"
    /\ UNCHANGED <<ctxVars, readVars, startVars, shutdownVars, configVars, batcherVars, generated, packets, packetsClosed, poolVars, received,
                   repoVars, saveVars, closeVars, appVars>>

\* The test reads a packet from the source's channel.
TestSourceReceive ==
    /\ Len(packets) > 0
    /\ received' = Append(received, Head(packets))
    /\ packets' = Tail(packets)
    /\ UNCHANGED <<ctxVars, readVars, startVars, shutdownVars, configVars, batcherVars, generated, sourcePc, packetsClosed, poolVars, repoVars,
                   saveVars, closeVars, appVars>>

NextSource ==
    \/ TestSourceStart
    \/ SourceTick(MaxSourceTicks)
    \/ SourceSend
    \/ SourceCancelled
    \/ TestSourceReceive
    \/ Cancel("run")

SpecSource == Init /\ [][NextSource]_vars

\* The source goroutine is scheduled, and a select with <-ctx.Done() ready does
\* not pass it over for ever.
FairSource == SpecSource /\ WF_vars(SourceCancelled)

\* --------------------------------------------------------------------- App

\* consumeResults, line 109: the next result of the range loop.
ConsumerReceive ==
    /\ consumer.pc = "range"
    /\ Len(results) > 0
    /\ results' = Tail(results)
    /\ consumer' = [consumer EXCEPT !.pc = "save", !.held = Head(results)]
    /\ UNCHANGED <<ctxVars, readVars, startVars, shutdownVars, configVars, batcherVars, sourceVars, startCalls, workers, resultsCloses, wpDone,
                   received, repoVars, saveVars, closeVars, app>>

\* consumeResults, lines 111-116: the context is chosen by saveCtx.Err() and
\* Save is called with the one-element buffer.
ConsumerSave ==
    /\ consumer.pc = "save"
    /\ SaveBegin(1, <<consumer.held>>, IF Done("run") THEN Background ELSE "run")
    /\ consumer' = [consumer EXCEPT !.pc = "saving"]
    /\ UNCHANGED app

\* Save has returned (its error is only logged): back to the range loop. A
\* panic of Save ends the goroutine (and the process).
ConsumerNext ==
    /\ consumer.pc = "saving"
    /\ savers[1].pc = "idle"
    /\ consumer' = [consumer EXCEPT
                      !.pc = IF saveLog[Len(saveLog)].ret = Panic THEN "crashed"
                             ELSE "range",
                      !.held = None]
    /\ UNCHANGED <<ctxVars, readVars, startVars, shutdownVars, configVars, batcherVars, sourceVars, poolVars, received, repoVars, saveVars,
                   closeVars, app>>

\* The result channel is closed and empty: the loop ends, deferred close(done).
ConsumerDone ==
    /\ consumer.pc = "range"
    /\ Len(results) = 0
    /\ resultsCloses > 0
    /\ consumer' = [consumer EXCEPT !.pc = "done", !.done = TRUE]
    /\ UNCHANGED <<ctxVars, readVars, startVars, shutdownVars, configVars, batcherVars, sourceVars, poolVars, received, repoVars, saveVars,
                   closeVars, app>>

\* Run, lines 39-52: source.Start, workerPool.Start, consumeResults.
RunStart ==
    /\ app.pc = "init"
    /\ sourcePc' = "select"
    /\ StartPool
    /\ consumer' = [consumer EXCEPT !.pc = "range"]
    /\ app' = [app EXCEPT !.pc = "wait"]
    /\ UNCHANGED <<ctxVars, readVars, startVars, shutdownVars, configVars, batcherVars, generated, packets, packetsClosed, received, repoVars,
                   saveVars, closeVars>>

\* ShutdownManager.WithContext: a signal (or the parent) cancels runCtx.
Signal ==
    /\ app.pc \in {"init", "wait"}
    /\ Cancel("run")

\* Run, lines 54-60: <-runCtx.Done() returns, CleanupContext starts the grace
\* period.
RunObserveCancel ==
    /\ app.pc = "wait"
    /\ Done("run")
    /\ app' = [app EXCEPT !.pc = "shutdown"]
    /\ UNCHANGED <<ctxVars, readVars, startVars, shutdownVars, configVars, batcherVars, sourceVars, poolVars, received, repoVars, saveVars,
                   closeVars, consumer>>

\* The grace period of cleanupCtx runs out.
CleanupExpire ==
    /\ app.pc \in {"shutdown", "waitFor", "close", "closing"}
    /\ "cleanup" \notin cancelled
    /\ cancelled' = cancelled \cup {"cleanup"}
    /\ app' = [app EXCEPT !.expired = TRUE]
    /\ UNCHANGED <<readVars, startVars, shutdownVars, configVars, batcherVars, sourceVars, poolVars, received, repoVars, saveVars, closeVars,
                   consumer>>

\* WorkerPool.Shutdown: select on wp.done and ctx.Done().
Shutdown(ctx, ret) ==
    \/ wpDone /\ ret = Nil
    \/ Done(ctx) /\ ret = CtxErr

\* Mutant of WaitFor: it returns nil without waiting for the consumer.
WaitForNoWait(ctx, done, ret) == ret = Nil

\* ShutdownManager.WaitFor: select on done and ctx.Done().
WaitFor(ctx, done, ret) ==
    \/ done /\ ret = Nil
    \/ Done(ctx) /\ ret = CtxErr

\* Mutant of keepFirstError: a later error replaces the one kept.
keepLastError(shutdownErr, err) ==
    IF err /= Nil THEN err ELSE shutdownErr

\* Run, lines 71-75 and 80-84: if err != nil { if shutdownErr == nil
\* { shutdownErr = err } }.
keepFirstError(shutdownErr, err) ==
    IF err /= Nil /\ shutdownErr = Nil THEN err ELSE shutdownErr

\* Run, lines 64-68: workerPool.Shutdown(cleanupCtx) returns ret, which is
\* assigned to shutdownErr when it is not nil.
RunShutdown(ret) ==
    /\ app.pc = "shutdown"
    /\ Shutdown("cleanup", ret)
    /\ app' = [app EXCEPT !.pc = "waitFor", !.shutdownRet = ret,
                          !.steps = Append(@, "Shutdown"),
                          !.shutdownErr = IF ret /= Nil THEN ret ELSE @]
    /\ UNCHANGED <<ctxVars, readVars, startVars, shutdownVars, configVars, batcherVars, sourceVars, poolVars, received, repoVars, saveVars,
                   closeVars, consumer>>

\* Run, lines 70-76: shutdownManager.WaitFor(cleanupCtx, resultsDone) returns ret.
RunWaitFor(ret) ==
    /\ app.pc = "waitFor"
    /\ WaitFor("cleanup", consumer.done, ret)
    /\ app' = [app EXCEPT !.pc = "close", !.waitRet = ret,
                          !.steps = Append(@, "WaitFor"),
                          !.shutdownErr = keepFirstError(@, ret)]
    /\ UNCHANGED <<ctxVars, readVars, startVars, shutdownVars, configVars, batcherVars, sourceVars, poolVars, received, repoVars, saveVars,
                   closeVars, consumer>>

\* Run, lines 78-79: repository.Close(cleanupCtx) is called, whatever Shutdown
\* and WaitFor returned. atClose records where the pipeline is at the call.
RunClose ==
    /\ app.pc = "close"
    /\ CloseBegin(1, "cleanup")
    /\ app' = [app EXCEPT
                 !.pc = "closing",
                 !.steps = Append(@, "Close"),
                 !.atClose = <<[sourceClosed |-> packetsClosed,
                                poolDone     |-> wpDone /\ resultsCloses > 0,
                                consumerDone |-> consumer.done,
                                inSave       |-> savers[1].pc /= "idle",
                                expired      |-> Done("cleanup")]>>]
    /\ UNCHANGED consumer

\* Run, lines 79-97: Close has returned; Run returns nil, the deferred
\* cleanupCancel runs.
RunFinish ==
    /\ app.pc = "closing"
    /\ closers[1].pc = "idle"
    /\ consumer.pc /= "crashed"
    /\ app' = [app EXCEPT !.pc = "returned",
                          !.shutdownErr = keepFirstError(@, closeLog[Len(closeLog)].ret),
                          !.ret = <<Nil>>]
    /\ cancelled' = cancelled \cup {"cleanup"}
    /\ UNCHANGED <<readVars, startVars, shutdownVars, configVars, batcherVars, sourceVars, poolVars, received, repoVars, saveVars, closeVars,
                   consumer>>

NextApp ==
    \/ RunStart
    \/ Signal
    \/ RunObserveCancel
    \/ CleanupExpire
    \/ \E ret \in {Nil, CtxErr} : RunShutdown(ret)
    \/ \E ret \in {Nil, CtxErr} : RunWaitFor(ret)
    \/ RunClose
    \/ RunFinish
    \/ SourceTick(MaxTicks)
    \/ SourceSend
    \/ SourceCancelled
    \/ \E w \in Workers : WorkerReceive(w)
    \/ \E w \in Workers : WorkerPublish(w)
    \/ \E w \in Workers : WorkerCancelled(w)
    \/ \E w \in Workers : WorkerReturn(w)
    \/ PoolFinish
    \/ ConsumerReceive
    \/ ConsumerSave
    \/ ConsumerNext
    \/ ConsumerDone
    \/ SaveCheckError(1)
    \/ SaveSend(1)
    \/ SaveCancelled(1)
    \/ SavePanics(1)
    \/ SaveFinish(1)
    \/ CloseQueue(1)
    \/ \E err \in {Nil, DbCloseErr} : CloseDB(1, err)
    \/ CloseCancelled(1)
    \/ \E outcome \in Outcomes : FlusherReceive(outcome)
    \/ \E outcome \in Outcomes : FlusherTick(outcome)
    \/ \E outcome \in Outcomes : FlusherClosed(outcome)

SpecApp == Init /\ [][NextApp]_vars

\* ------------------------------------------- claims on PostgresRepository

\* Some Close call has returned nil.
ClosedCleanly == \E i \in 1 .. Len(closeLog) : closeLog[i].ret = Nil

FlushedRows == [i \in 1 .. Len(flushLog) |-> flushLog[i].r]

NoFlushFailed == \A i \in 1 .. Len(flushLog) : flushLog[i].outcome = "ok"

\* C2: when a Close call has returned nil, the intake is closed, the flusher
\* has exited, every reduction that Save put on the intake is a row of an
\* executed flush (nothing is left in the intake or in the buffer), and the
\* connection is only ever released after the flusher's exit.
C2_CloseDrains ==
    /\ dbCloses > 0 => repoDone
    /\ ClosedCleanly =>
         /\ queueCloses > 0
         /\ repoDone
         /\ dbCloses > 0
         /\ Len(queue) = 0
         /\ Len(buffer) = 0
         /\ FlushedRows = enqLog

\* C2 witness: a clean Close after two reductions, the last one flushed alone
\* by the final flush at the intake's closure.
C2_Witness ==
    /\ ClosedCleanly
    /\ Len(enqLog) = 2
    /\ flushLog[Len(flushLog)].by = "closed"
    /\ flushLog[Len(flushLog)].first

\* Every Save call made so far has returned nil.
AllSavesOk ==
    /\ \A s \in Savers : savers[s].pc = "idle"
    /\ \A i \in 1 .. Len(saveLog) : saveLog[i].ret = Nil

\* The database answered every flush: no transport failure, no done context.
DatabaseReachable ==
    \A i \in 1 .. Len(flushLog) : flushLog[i].outcome \notin {"transport", "context"}

\* C3: after a clean Close the store has as many rows as there are distinct
\* ids among the reductions passed to Save; stated here for the runs where
\* every Save call returned nil and the database answered every flush.
C3_RowsEqualPassed ==
    (ClosedCleanly /\ AllSavesOk /\ DatabaseReachable)
        => Cardinality(DOMAIN rows) = Cardinality(passed)

LastEnqueued(id) ==
    enqLog[CHOOSE i \in 1 .. Len(enqLog) :
             /\ enqLog[i].ID = id
             /\ \A j \in 1 .. Len(enqLog) : enqLog[j].ID = id => j <= i]

\* C4: once every enqueued reduction has been flushed, with no transport or
\* context failure, each id put on the intake has a row, and the row carries
\* the timestamp and max_value of the reduction with that id enqueued last.
C4_LastWriterWins ==
    (FlushedRows = enqLog /\ DatabaseReachable)
    => \A i \in 1 .. Len(enqLog) :
          /\ enqLog[i].ID \in DOMAIN rows
          /\ rows[enqLog[i].ID] = [Timestamp |-> LastEnqueued(enqLog[i].ID).Timestamp,
                                   MaxValue  |-> LastEnqueued(enqLog[i].ID).MaxValue]

FlushErrors == {saveLog[i].ret : i \in {j \in 1 .. Len(saveLog) : saveLog[j].ret[1] = "flush"}}

\* C5: a flush error is returned by exactly one Save call: no two finished
\* Save calls have returned the same flush error.
C5_ErrorReportedOnce ==
    \A e \in FlushErrors :
        Cardinality({i \in 1 .. Len(saveLog) : saveLog[i].ret = e}) <= 1

\* C6 as stated: every Save call that starts once closing is set returns
\* ErrRepositoryClosed and sends nothing, whatever its batch.
C6_SaveAfterCloseFails ==
    \A i \in 1 .. Len(saveLog) :
        saveLog[i].afterClose =>
            saveLog[i].ret = ErrRepositoryClosed /\ saveLog[i].sent = 0

\* C6, non-empty batches: every Save call with a non-empty batch that starts once closing
\* is set returns ErrRepositoryClosed and sends nothing; with an empty batch it
\* returns nil and sends nothing. No call in progress started after the close.
C6_NonEmptySaveAfterCloseFails ==
    /\ \A i \in 1 .. Len(saveLog) :
          saveLog[i].afterClose =>
             /\ saveLog[i].sent = 0
             /\ saveLog[i].ret = IF saveLog[i].len = 0 THEN Nil ELSE ErrRepositoryClosed
    /\ \A s \in Savers : ~savers[s].afterClose

\* C6 witness: a Save call with reductions, started after the close, has
\* returned ErrRepositoryClosed.
C6_Witness ==
    \E i \in 1 .. Len(saveLog) :
        /\ saveLog[i].afterClose
        /\ saveLog[i].len > 0
        /\ saveLog[i].ret = ErrRepositoryClosed

RepoState ==
    IF repoDone THEN "CLOSED" ELSE IF closing = 1 THEN "CLOSING" ELSE "OPEN"

\* Close calls, finished or in progress, that made the OPEN -> CLOSING move.
Winners ==
    Cardinality({i \in 1 .. Len(closeLog) : closeLog[i].won})
      + Cardinality({c \in Closers : closers[c].won})

\* C9: the state moves OPEN -> CLOSING -> CLOSED and never back; exactly one
\* Close call makes the OPEN -> CLOSING move, only that call closes the intake,
\* and the intake is closed once.
C9_StateMachine ==
    [][ /\ RepoState = "OPEN" => RepoState' \in {"OPEN", "CLOSING"}
        /\ RepoState = "CLOSING" => RepoState' \in {"CLOSING", "CLOSED"}
        /\ RepoState = "CLOSED" => RepoState' = "CLOSED"
        /\ Winners' = (IF RepoState' = "OPEN" THEN 0 ELSE 1)
        /\ queueCloses' <= 1
        /\ queueCloses' > queueCloses =>
              \E c \in Closers : closers[c].won /\ closers[c].pc = "closeQueue"
                                   /\ closers'[c].pc = "wait"
      ]_vars

\* C9 witness: two Close calls ran concurrently, one made the move, both
\* returned nil.
C9_Witness ==
    /\ Len(closeLog) = 2
    /\ \A c \in Closers : closers[c].pc = "idle"
    /\ \E i, j \in 1 .. 2 : closeLog[i].won /\ ~closeLog[j].won
    /\ \A i \in 1 .. 2 : closeLog[i].ret = Nil /\ ~closeLog[i].afterOk
    /\ queueCloses = 1

RepoFields == <<queue, queueCloses, closing, lastErr, closeCtx, repoDone, buffer,
                dbCloses, rows>>

C7_CloseAfterDrain ==
    \A i \in 1 .. Len(app.atClose) :
        /\ app.atClose[i].sourceClosed
        /\ app.atClose[i].poolDone
        /\ app.atClose[i].consumerDone
        /\ ~app.atClose[i].inSave

\* C7: the repository is closed by Run only, after Shutdown and WaitFor have
\* returned; when Shutdown returned nil the source had closed its output and
\* the pool the result channel, and when WaitFor returned nil the consumer
\* had ended as well, with no Save in progress.
C7_CloseAfterDrainInTime ==
    /\ closing = 1 => app.pc \in {"closing", "returned"} /\ Len(app.atClose) = 1
    /\ \A i \in 1 .. Len(app.atClose) :
          /\ app.shutdownRet = Nil =>
                app.atClose[i].sourceClosed /\ app.atClose[i].poolDone
          /\ app.waitRet = Nil =>
                /\ app.atClose[i].sourceClosed
                /\ app.atClose[i].poolDone
                /\ app.atClose[i].consumerDone
                /\ ~app.atClose[i].inSave

\* Run has returned after a shutdown within the grace period: every packet of
\* the source went through the pool and the consumer before Close was called.
C7_Witness ==
    /\ app.pc = "returned"
    /\ app.shutdownRet = Nil
    /\ app.waitRet = Nil
    /\ ~app.expired
    /\ generated = MaxTicks
    /\ Len(saveLog) = MaxTicks
    /\ Len(closeLog) = 1
    /\ closeLog[1].ret = Nil

\* C8 as stated: when Run has returned, no flush failed and the grace period
\* did not run out, every packet the source delivered has its row.
C8_EveryPacketStored ==
    (app.pc = "returned" /\ NoFlushFailed /\ ~app.expired) =>
        \A k \in 1 .. generated : UUIDString(k) \in DOMAIN rows

\* C12: the result channel is closed at most once and only when every worker
\* has returned (so no worker sends on it afterwards); a Shutdown call returns
\* nil only when the channel is closed and all workers have returned, and
\* otherwise the error of its context, which is then done, and it leaves the
\* workers as they are.
C12_ShutdownAfterWorkers ==
    [][ /\ resultsCloses' <= 1
        /\ resultsCloses' = 1 => \A w \in Workers : workers'[w].pc = "returned"
        /\ wpDone' <=> resultsCloses' = 1
        /\ (app.pc = "shutdown" /\ app'.pc = "waitFor") =>
              /\ workers' = workers
              /\ results' = results
              /\ IF app'.shutdownRet = Nil
                 THEN /\ resultsCloses = 1
                      /\ \A w \in Workers : workers[w].pc = "returned"
                 ELSE app'.shutdownRet = CtxErr /\ Done("cleanup")
      ]_vars

\* Shutdown has returned the deadline error while a worker is still at work
\* with a packet; the result channel is open.
C12_Witness ==
    /\ app.pc = "waitFor"
    /\ app.shutdownRet = CtxErr
    /\ resultsCloses = 0
    /\ \E w \in Workers : workers[w].pc \in {"publish", "drainPublish"}

\* ------------------------------------------------------------ read queries

ReadErr == <<"read", 0>>

\* The reductions the tests of the read side save: two ids at whole
\* microseconds, one between two microseconds, and a second version of id 1.
TestReductions ==
    {[ID |-> UUIDString(1), Timestamp |-> 1000, MaxValue |-> 15],
     [ID |-> UUIDString(2), Timestamp |-> 2500, MaxValue |-> 42],
     [ID |-> UUIDString(3), Timestamp |-> 3000, MaxValue |-> 7],
     [ID |-> UUIDString(1), Timestamp |-> 3000, MaxValue |-> 8]}
TestBatches == UNION {[1 .. n -> TestReductions] : n \in 1 .. 2}
TestIds == {UUIDString(k) : k \in 1 .. 4}
TestInstants == {1000, 2500, 3000, 4000}

\* The sequences that hold each element of set S once.
SeqsOf(S) ==
    {q \in [1 .. Cardinality(S) -> S] : \A x \in S : \E i \in DOMAIN q : q[i] = x}

\* The orders in which ORDER BY timestamp, or sort.Slice with Timestamp.Before
\* as its less, may leave the set S of records: ascending, ties in any order.
SortedByTimestamp(S) ==
    {q \in SeqsOf(S) :
        \A i, j \in DOMAIN q : i < j => q[i].Timestamp <= q[j].Timestamp}

\* The records of a table of rows.
RecordsOf(table) ==
    {[ID |-> id, Timestamp |-> table[id].Timestamp, MaxValue |-> table[id].MaxValue] :
        id \in DOMAIN table}

\* QueryRowContext and row.Scan of SELECT ... WHERE id = $1: the record
\* scanned (a sequence of no or one record) and Scan's error.
ErrNoRows == <<"sql.ErrNoRows", 0>>

ScanRow(table, id, outcome) ==
    IF outcome /= "ok" THEN [row |-> <<>>, err |-> ReadErr]
    ELSE IF id \notin DOMAIN table THEN [row |-> <<>>, err |-> ErrNoRows]
    ELSE [row |-> <<[ID |-> id, Timestamp |-> table[id].Timestamp,
                     MaxValue |-> table[id].MaxValue]>>,
          err |-> Nil]

\* PostgresRepository.GetByID: errors.Is(err, sql.ErrNoRows) is (nil, nil),
\* another error of Scan is returned, otherwise the record is.
GetByID(table, id, outcome) ==
    LET scan == ScanRow(table, id, outcome)
    IN IF scan.err /= Nil
       THEN IF scan.err = ErrNoRows
            THEN [result |-> <<>>, err |-> Nil]
            ELSE [result |-> <<>>, err |-> scan.err]
       ELSE [result |-> scan.row, err |-> Nil]

\* PostgresRepository.GetByTimeRange: WHERE timestamp >= $1 AND timestamp < $2
\* ORDER BY timestamp, the two instants bound as TIMESTAMPTZ values. The set
\* of the results the query may give.
GetByTimeRange(table, from, to) ==
    SortedByTimestamp({r \in RecordsOf(table) :
                          /\ r.Timestamp >= ToTimestamptz(from)
                          /\ r.Timestamp < ToTimestamptz(to)})

\* What the database answers a query: after db.Close it is refused.
QueryOutcomes == IF dbCloses > 0 THEN {"closed"} ELSE {"ok", "transport"}

ReadCalls ==
    Cardinality({i \in DOMAIN readLog : readLog[i].op \in {"GetByID", "GetByTimeRange"}})

\* The writes are drained: every Save call returned nil, every reduction
\* passed went through a flush, and the database answered every flush.
Drained ==
    /\ Len(saveLog) > 0
    /\ AllSavesOk
    /\ Len(enqLog) = nPassed
    /\ Len(flushLog) = nPassed
    /\ DatabaseReachable

\* Mutant of CallGetByID: the read first flushes what the flusher has buffered
\* and sees it.
CallGetByIDFlushing(id, outcome) ==
    /\ ReadCalls < MaxReads
    /\ outcome \in QueryOutcomes
    /\ buffer' = <<>>
    /\ LET table == IF Len(buffer) = 0 THEN rows
                    ELSE ExecUpsert(rows, buildInsert(buffer))
       IN readLog' = Append(readLog,
                       [op      |-> "GetByID",
                        arg     |-> <<id>>,
                        outcome |-> outcome,
                        result  |-> GetByID(table, id, outcome).result,
                        err     |-> GetByID(table, id, outcome).err,
                        drained |-> Drained, table |-> table,
                        written |-> enqLog])
    /\ UNCHANGED <<ctxVars, startVars, shutdownVars, configVars, batcherVars, data, driver, sourceVars, poolVars, received, queue,
                   queueCloses, closing, lastErr, closeCtx, repoDone, dbCloses, rows,
                   enqLog, flushLog, saveVars, closeVars, appVars>>

\* A GetByID call.
CallGetByID(id, outcome) ==
    /\ ReadCalls < MaxReads
    /\ outcome \in QueryOutcomes
    /\ readLog' = Append(readLog,
                    [op      |-> "GetByID",
                     arg     |-> <<id>>,
                     outcome |-> outcome,
                     result  |-> GetByID(rows, id, outcome).result,
                     err     |-> GetByID(rows, id, outcome).err,
                     drained |-> Drained, table |-> rows,
                     written |-> enqLog])
    /\ UNCHANGED <<ctxVars, startVars, shutdownVars, configVars, batcherVars, data, driver, sourceVars, poolVars, received, repoVars,
                   saveVars, closeVars, appVars>>

\* A GetByTimeRange call.
CallGetByTimeRange(from, to, outcome) ==
    /\ ReadCalls < MaxReads
    /\ outcome \in QueryOutcomes
    /\ \E result \in (IF outcome = "ok" THEN GetByTimeRange(rows, from, to) ELSE {<<>>}) :
          readLog' = Append(readLog,
                       [op      |-> "GetByTimeRange",
                        arg     |-> <<from, to>>,
                        outcome |-> outcome,
                        result  |-> result,
                        err     |-> IF outcome = "ok" THEN Nil ELSE ReadErr,
                        drained |-> Drained, table |-> rows,
                     written |-> enqLog])
    /\ UNCHANGED <<ctxVars, startVars, shutdownVars, configVars, batcherVars, data, driver, sourceVars, poolVars, received, repoVars,
                   saveVars, closeVars, appVars>>

\* The test closes the repository, once.
CallCloseTest ==
    /\ CloseCalls = 0
    /\ CallClose(1)

\* The test saves one batch.
CallSaveTest(batch) ==
    /\ SaveCalls = 0
    /\ Len(saveLog) = 0
    /\ SaveBegin(1, batch, Background)
    /\ UNCHANGED appVars

\* -------------------------------------------- the in-memory repositories

\* Repository.Save: under the lock, data[packet.ID] = packet for each packet
\* in order.
RECURSIVE MemAssign(_, _, _)
MemAssign(d, batch, i) ==
    IF i > Len(batch) THEN d
    ELSE MemAssign([id \in DOMAIN d \cup {batch[i].ID} |->
                       IF id = batch[i].ID
                       THEN [Timestamp |-> batch[i].Timestamp,
                             MaxValue  |-> batch[i].MaxValue]
                       ELSE d[id]],
                   batch, i + 1)

MemSaveCalls == Cardinality({i \in DOMAIN readLog : readLog[i].op = "MemSave"})

MemSave(batch) ==
    /\ MemSaveCalls < MaxMemSaves
    /\ data' = (IF Len(batch) = 0 THEN data ELSE MemAssign(data, batch, 1))
    /\ readLog' = Append(readLog,
                    [op |-> "MemSave", arg |-> batch, result |-> <<>>, err |-> Nil,
                     drained |-> TRUE, table |-> data])
    /\ UNCHANGED <<ctxVars, startVars, shutdownVars, configVars, batcherVars, driver, sourceVars, poolVars, received, repoVars, saveVars,
                   closeVars, appVars>>

\* Repository.GetByID: value, ok := data[id]; a missing id is (nil, nil).
MemGetByID(d, id) ==
    IF id \in DOMAIN d
    THEN <<[ID |-> id, Timestamp |-> d[id].Timestamp, MaxValue |-> d[id].MaxValue]>>
    ELSE <<>>

\* Mutant of MemGetByTimeRange: the results are left in the order of the
\* iteration over the map.
MemGetByTimeRangeUnsorted(d, from, to) ==
    SeqsOf({r \in RecordsOf(d) : ~(r.Timestamp < from) /\ r.Timestamp < to})

\* Repository.GetByTimeRange: the values with !Timestamp.Before(from) and
\* Timestamp.Before(to), met in any order, then sort.Slice by Timestamp.Before.
MemGetByTimeRange(d, from, to) ==
    SortedByTimestamp({r \in RecordsOf(d) : ~(r.Timestamp < from) /\ r.Timestamp < to})

MemReadCalls ==
    Cardinality({i \in DOMAIN readLog :
                    readLog[i].op \in {"MemGetByID", "MemGetByTimeRange"}})

CallMemGetByID(id) ==
    /\ MemReadCalls < MaxReads
    /\ readLog' = Append(readLog,
                    [op |-> "MemGetByID", arg |-> <<id>>,
                     result |-> MemGetByID(data, id), err |-> Nil,
                     drained |-> TRUE, table |-> data])
    /\ UNCHANGED <<ctxVars, startVars, shutdownVars, configVars, batcherVars, data, driver, sourceVars, poolVars, received, repoVars,
                   saveVars, closeVars, appVars>>

CallMemGetByTimeRange(from, to) ==
    /\ MemReadCalls < MaxReads
    /\ \E result \in MemGetByTimeRange(data, from, to) :
          readLog' = Append(readLog,
                       [op |-> "MemGetByTimeRange", arg |-> <<from, to>>,
                        result |-> result, err |-> Nil, drained |-> TRUE,
                        table |-> data])
    /\ UNCHANGED <<ctxVars, startVars, shutdownVars, configVars, batcherVars, data, driver, sourceVars, poolVars, received, repoVars,
                   saveVars, closeVars, appVars>>

\* ------------------------------------ the reads of the PostgresRepository

\* ProvideRepository: the switch on cfg.DbDriver builds one repository.
Drivers == {"postgres", "clickhouse", "redis"}

ProvideRepository(d) ==
    /\ driver = None
    /\ driver' = d
    /\ UNCHANGED <<ctxVars, startVars, shutdownVars, configVars, batcherVars, readLog, data, sourceVars, poolVars, received, repoVars,
                   saveVars, closeVars, appVars>>

IsPostgres == driver = "postgres"
IsMemory == driver \in {"clickhouse", "redis"}

NextReads ==
    \/ \E d \in Drivers : ProvideRepository(d)
    \/ \E batch \in TestBatches : IsPostgres /\ CallSaveTest(batch)
    \/ IsPostgres /\ SaveCheckError(1)
    \/ IsPostgres /\ SaveSend(1)
    \/ IsPostgres /\ SaveFinish(1)
    \/ IsPostgres /\ CallCloseTest
    \/ IsPostgres /\ CloseQueue(1)
    \/ \E err \in {Nil, DbCloseErr} : IsPostgres /\ CloseDB(1, err)
    \/ \E outcome \in Outcomes : IsPostgres /\ FlusherReceive(outcome)
    \/ \E outcome \in Outcomes : IsPostgres /\ FlusherTick(outcome)
    \/ \E outcome \in Outcomes : IsPostgres /\ FlusherClosed(outcome)
    \/ \E id \in TestIds, outcome \in {"ok", "transport", "closed"} :
          IsPostgres /\ CallGetByID(id, outcome)
    \/ \E from, to \in TestInstants, outcome \in {"ok", "transport", "closed"} :
          IsPostgres /\ CallGetByTimeRange(from, to, outcome)
    \/ \E batch \in TestBatches \cup {<<>>} : IsMemory /\ MemSave(batch)
    \/ \E id \in TestIds : IsMemory /\ CallMemGetByID(id)
    \/ \E from, to \in TestInstants : IsMemory /\ CallMemGetByTimeRange(from, to)

SpecReads == Init /\ [][NextReads]_vars

\* ------------------------------------------------------ the idempotence law

\* One caller saves the same reduction n times in one batch, then closes the
\* repository to drain it.
SameReduction == Reduction(1, 1)

CallSaveSame(n) ==
    /\ nPassed = 0
    /\ SaveBegin(1, [i \in 1 .. n |-> SameReduction], Background)
    /\ UNCHANGED appVars

CallCloseAfterSave ==
    /\ Len(saveLog) = 1
    /\ CallClose(1)

NextIdem ==
    \/ \E n \in {1, 3} : CallSaveSame(n)
    \/ SaveCheckError(1)
    \/ SaveSend(1)
    \/ SaveFinish(1)
    \/ CallCloseAfterSave
    \/ CloseQueue(1)
    \/ \E err \in {Nil, DbCloseErr} : CloseDB(1, err)
    \/ \E outcome \in Outcomes : FlusherReceive(outcome)
    \/ \E outcome \in Outcomes : FlusherTick(outcome)
    \/ \E outcome \in Outcomes : FlusherClosed(outcome)

SpecIdem == Init /\ [][NextIdem]_vars

\* C16: after Save([r, r, r]) and after Save([r]), each followed by a drain
\* with a reachable database, the store holds the one row of r and no flush
\* has failed.
C16_Idempotent ==
    (ClosedCleanly /\ DatabaseReachable) =>
        /\ rows = [id \in {SameReduction.ID} |->
                     [Timestamp |-> SameReduction.Timestamp,
                      MaxValue  |-> SameReduction.MaxValue]]
        /\ NoFlushFailed
        /\ lastErr = Nil

\* --------------------------------------------------- claims on RandomSource

\* C13: once the context is cancelled the running source goroutine closes
\* its output, from the wait for a tick and from a blocked send alike; the
\* output is closed by the goroutine's return only, stays closed, and nothing
\* is sent on it afterwards.
C13_SourceCloses ==
    /\ [](packetsClosed <=> sourcePc = "closed")
    /\ [][packetsClosed =>
            /\ packetsClosed'
            /\ packets' \in {packets, Tail(packets)}
            /\ generated' = generated]_vars
    /\ ((Done("run") /\ sourcePc \in {"select", "send"}) ~> packetsClosed)

\* The output was closed while it was full, after the reader had read two
\* packets and stopped reading.
C13_Witness ==
    /\ packetsClosed
    /\ Done("run")
    /\ Len(packets) = BufferSize
    /\ Len(received) = 2

\* The packets the source has built and not given up: those sent, and the
\* one it is sending.
BuiltPackets ==
    [k \in 1 .. (generated + (IF sourcePc = "send" THEN 1 ELSE 0)) |-> DataPacket(k)]

\* C14: the channel never holds more than BufferSize packets; what the reader
\* received and what the channel holds are the packets sent, in the order of
\* their generation; and while the context is not cancelled a built packet
\* leaves the source only by being put on the channel, when a slot is free.
C14_Backpressure ==
    [][ /\ Len(packets') <= BufferSize
        /\ received' \o packets' = [k \in 1 .. generated' |-> DataPacket(k)]
        /\ (sourcePc = "send" /\ sourcePc' /= "send" /\ ~Done("run")) =>
              /\ Len(packets) < BufferSize
              /\ packets' = Append(packets, DataPacket(generated + 1))
        /\ ~Done("run")' =>
              \A k \in 1 .. Len(BuiltPackets) : BuiltPackets'[k] = BuiltPackets[k]
      ]_vars

\* The source found the channel full, waited for the reader and filled the
\* free slot: the reader has packets, the channel is full again, no
\* cancellation.
C14_Witness ==
    /\ ~Done("run")
    /\ Len(received) >= 2
    /\ Len(packets) = BufferSize
    /\ sourcePc = "send"

\* ---------------------------------------------- claims on the flusher

\* C15: whatever the flushes answered, the flusher goes on: it ends only on
\* the closed and empty intake, and until then it can take the next reduction
\* off the intake and flush a non-empty buffer; and every reduction put on
\* the intake goes to the database in one flush at most, in order, a failed
\* batch leaving the buffer for good.
C15_FlusherGoesOn ==
    /\ repoDone => queueCloses > 0 /\ Len(queue) = 0 /\ Len(buffer) = 0
    /\ (~repoDone /\ Len(queue) > 0) => ENABLED (\E o \in Outcomes : FlusherReceive(o))
    /\ (~repoDone /\ Len(buffer) > 0) => ENABLED (\E o \in Outcomes : FlusherTick(o))
    /\ FlushedRows \o buffer \o queue = enqLog

\* A flush has failed and a later flush, of a reduction received after the
\* failure, has succeeded.
C15_Witness ==
    \E i, j \in 1 .. Len(flushLog) :
        /\ i < j
        /\ flushLog[i].outcome = "transport"
        /\ flushLog[j].outcome = "ok"
        /\ flushLog[j].r.ID \in DOMAIN rows

\* ---------------------------------------------------- claims on the reads

\* The reduction written last with the id, in the order Save passed them to
\* the intake queue.
LastWritten(written, id) ==
    LET idx == {i \in 1 .. Len(written) : written[i].ID = id}
    IN written[CHOOSE i \in idx : \A j \in idx : j <= i]

\* C17: a GetByID made after Save returned nil and the batch was drained
\* gives, for an id of the batch, a record with the id, the instant and the
\* max_value of the reduction written last with that id.
C17_RoundTrip ==
    \A i \in DOMAIN readLog :
        LET call == readLog[i]
        IN (/\ call.op = "GetByID"
            /\ call.err = Nil
            /\ call.drained
            /\ \E k \in 1 .. Len(call.written) : call.written[k].ID = call.arg[1])
           => call.result = <<LastWritten(call.written, call.arg[1])>>

RangeCalls ==
    {i \in DOMAIN readLog :
        /\ readLog[i].op \in {"GetByTimeRange", "MemGetByTimeRange"}
        /\ readLog[i].err = Nil}

\* The result holds each row of the table with from <= timestamp < to once
\* and nothing else, in ascending order of timestamp.
ExactlyTheRange(call, from, to) ==
    LET inRange == {r \in RecordsOf(call.table) :
                       from <= r.Timestamp /\ r.Timestamp < to}
    IN /\ {call.result[k] : k \in DOMAIN call.result} = inRange
       /\ Len(call.result) = Cardinality(inRange)
       /\ \A j, k \in DOMAIN call.result :
             j < k => call.result[j].Timestamp <= call.result[k].Timestamp

IsRead(call) == call.op \in {"GetByID", "GetByTimeRange"}

\* The record is the row of a flush that has executed.
RowOfExecutedFlush(rec) ==
    \E k \in 1 .. Len(flushLog) :
        /\ flushLog[k].outcome = "ok"
        /\ flushLog[k].r.ID = rec.ID
        /\ flushLog[k].r.MaxValue = rec.MaxValue
        /\ ToTimestamptz(flushLog[k].r.Timestamp) = rec.Timestamp

\* C19: a step in which GetByID or GetByTimeRange of the PostgresRepository
\* returns leaves the intake queue, the flusher's buffer, the last-error slot
\* and the closing flag as they were; the records it returns are rows of
\* flushes that have executed; and GetByID of an id with no row, the
\* database answering, returns (nil, nil).
C19_ReadsFrame ==
    [][(Len(readLog') > Len(readLog) /\ IsRead(readLog'[Len(readLog')])) =>
          LET call == readLog'[Len(readLog')]
          IN /\ UNCHANGED <<queue, queueCloses, buffer, lastErr, closing, rows>>
             /\ \A k \in DOMAIN call.result : RowOfExecutedFlush(call.result[k])
             /\ (/\ call.op = "GetByID"
                 /\ call.outcome = "ok"
                 /\ call.arg[1] \notin DOMAIN rows)
                => (call.result = <<>> /\ call.err = Nil)]_vars

\* A GetByID of an id that Save has passed on and that the flusher still
\* holds in its buffer: the read has returned (nil, nil) and the buffer is
\* as it was.
C19_Witness ==
    /\ Len(buffer) > 0
    /\ readLog /= <<>>
    /\ LET call == readLog[Len(readLog)]
       IN /\ call.op = "GetByID"
          /\ call.arg[1] = buffer[1].ID
          /\ call.written /= <<>>
          /\ call.result = <<>>
          /\ call.err = Nil

\* ------------------------------------- NewWorkerPool and concurrent Starts

\* The worker counts handed to NewWorkerPool and the input channels handed
\* to Start.
PoolSizes == {-1, 0, 1, 2, 3}
InputChannels == {"packets", "otherPackets"}

\* NewWorkerPool: workerCount <= 0 becomes 1; results is made with that
\* capacity.
NewWorkerPool(workerCount) ==
    /\ ~wp.built
    /\ LET n == IF workerCount <= 0 THEN 1 ELSE workerCount
       IN wp' = [NoPool EXCEPT !.built = TRUE, !.arg = workerCount,
                               !.workerCount = n, !.resultsCap = n]
    /\ UNCHANGED <<ctxVars, shutdownVars, configVars, batcherVars, readVars, starters, sourceVars, poolVars, received,
                   repoVars, saveVars, closeVars, appVars>>

StartReturned == {c \in Starters : starters[c].pc = "returned"}

\* A goroutine calls Start(ctx, packets).
StartCall(c, ch) ==
    /\ wp.built
    /\ starters[c].pc = "idle"
    /\ starters' = [starters EXCEPT ![c] =
                      [pc |-> "do", packets |-> ch, after |-> StartReturned]]
    /\ UNCHANGED <<ctxVars, shutdownVars, configVars, batcherVars, readVars, wp, sourceVars, poolVars, received, repoVars,
                   saveVars, closeVars, appVars>>

\* Mutant of OnceEnter: Start without startOnce, every call runs the body.
OnceEnterAgain(c) ==
    /\ starters[c].pc = "do"
    /\ wp.startOnce \in {"new", "done"}
    /\ wp' = [wp EXCEPT !.startOnce = "running", !.winner = c]
    /\ starters' = [starters EXCEPT ![c].pc = "loop"]
    /\ UNCHANGED <<ctxVars, shutdownVars, configVars, batcherVars, readVars, sourceVars, poolVars, received, repoVars,
                   saveVars, closeVars, appVars>>

\* startOnce.Do, first caller: it runs the function.
OnceEnter(c) ==
    /\ starters[c].pc = "do"
    /\ wp.startOnce = "new"
    /\ wp' = [wp EXCEPT !.startOnce = "running", !.winner = c]
    /\ starters' = [starters EXCEPT ![c].pc = "loop"]
    /\ UNCHANGED <<ctxVars, shutdownVars, configVars, batcherVars, readVars, sourceVars, poolVars, received, repoVars,
                   saveVars, closeVars, appVars>>

\* startOnce.Do, another caller: it waits for the function to return and
\* returns without running it.
OnceSkip(c) ==
    /\ starters[c].pc = "do"
    /\ wp.startOnce = "done"
    /\ starters' = [starters EXCEPT ![c].pc = "returned"]
    /\ UNCHANGED <<ctxVars, shutdownVars, configVars, batcherVars, readVars, wp, sourceVars, poolVars, received, repoVars,
                   saveVars, closeVars, appVars>>

\* The loop of Start: wg.Add(1); go wp.worker(ctx, packets).
SpawnWorker(c) ==
    /\ starters[c].pc = "loop"
    /\ Len(wp.spawned) < wp.workerCount
    /\ wp' = [wp EXCEPT !.spawned = Append(@, starters[c].packets)]
    /\ UNCHANGED <<ctxVars, shutdownVars, configVars, batcherVars, readVars, starters, sourceVars, poolVars, received,
                   repoVars, saveVars, closeVars, appVars>>

\* After the loop: the goroutine that waits for the workers is started and
\* the function of startOnce returns.
SpawnWaiter(c) ==
    /\ starters[c].pc = "loop"
    /\ Len(wp.spawned) >= wp.workerCount
    /\ wp' = [wp EXCEPT !.waiters = @ + 1, !.startOnce = "done"]
    /\ starters' = [starters EXCEPT ![c].pc = "returned"]
    /\ UNCHANGED <<ctxVars, shutdownVars, configVars, batcherVars, readVars, sourceVars, poolVars, received, repoVars,
                   saveVars, closeVars, appVars>>

NextStart ==
    \/ \E n \in PoolSizes : NewWorkerPool(n)
    \/ \E c \in Starters, ch \in InputChannels : StartCall(c, ch)
    \/ \E c \in Starters : OnceEnter(c)
    \/ \E c \in Starters : OnceSkip(c)
    \/ \E c \in Starters : SpawnWorker(c)
    \/ \E c \in Starters : SpawnWaiter(c)

SpecStart == Init /\ [][NextStart]_vars

\* C20: at most N workers are ever spawned and the result channel has
\* capacity N, where N is the count given to NewWorkerPool, 1 for a count
\* <= 0; once a Start call has returned, exactly N workers and one waiting
\* goroutine have been spawned, whatever the number of Start calls made or
\* running, and every worker reads the input channel of the first call: the
\* call that ran startOnce, which began before any Start call had returned.
C20_StartIdempotent ==
    wp.built =>
        LET N == IF wp.arg <= 0 THEN 1 ELSE wp.arg
        IN /\ wp.resultsCap = N
           /\ Len(wp.spawned) <= N
           /\ wp.waiters <= 1
           /\ StartReturned /= {} =>
                 /\ Len(wp.spawned) = N
                 /\ wp.waiters = 1
                 /\ wp.winner \in Starters
                 /\ starters[wp.winner].after = {}
                 /\ \A i \in DOMAIN wp.spawned :
                       wp.spawned[i] = starters[wp.winner].packets

\* Three Start calls with different input channels have all returned on a
\* pool built with a count of 0, one of them made after another had returned.
C20_Witness ==
    /\ wp.built
    /\ wp.arg = 0
    /\ StartReturned = Starters
    /\ \E c, d \in Starters : starters[c].packets /= starters[d].packets
    /\ \E c \in Starters : starters[c].after /= {}

\* ------------------------------------------------- claims on App.Run's end

\* The first error of the sequence that is not nil, nil if there is none.
FirstNonNil(errs) ==
    LET idx == {i \in DOMAIN errs : errs[i] /= Nil}
    IN IF idx = {} THEN Nil
       ELSE errs[CHOOSE i \in idx : \A j \in idx : i <= j]

\* The results of the shutdown steps that have returned so far, in order.
StepResults ==
    IF app.pc \in {"init", "wait", "shutdown"} THEN <<>>
    ELSE IF app.pc = "waitFor" THEN <<app.shutdownRet>>
    ELSE IF app.pc \in {"close", "closing"} THEN <<app.shutdownRet, app.waitRet>>
    ELSE <<app.shutdownRet, app.waitRet, closeLog[Len(closeLog)].ret>>

\* C21: shutdownErr is at every moment the first non-nil error among the
\* results of WorkerPool.Shutdown, WaitFor and Repository.Close returned so
\* far; when Run returns it has called the three steps in that order,
\* whatever they returned, and its own result is nil.
C21_FirstShutdownError ==
    /\ app.shutdownErr = FirstNonNil(StepResults)
    /\ app.pc = "returned" =>
          /\ app.steps = <<"Shutdown", "WaitFor", "Close">>
          /\ app.ret = <<Nil>>
    /\ app.pc /= "returned" => app.ret = <<>>

\* Run has returned after Shutdown failed with the context's error and Close
\* with another one: the steps after the failure were made and the first
\* error is the one kept.
C21_Witness ==
    /\ app.pc = "returned"
    /\ app.shutdownRet = CtxErr
    /\ closeLog[Len(closeLog)].ret = DbCloseErr
    /\ app.shutdownErr = CtxErr
    /\ app.ret = <<Nil>>

\* ------------------------------------------- ShutdownManager.WithContext

\* The rest of the state, which the ShutdownManager leaves alone.
restOfShutdown == <<readVars, startVars, sourceVars, poolVars, received, repoVars,
                    saveVars, closeVars, appVars, configVars, batcherVars>>

\* NewShutdownManager: without WithSignalChannel the channel is made with
\* capacity 1 and registered with signal.Notify; a test injects a channel
\* with a buffer of one signal or with none.
ManagerKinds == {"notify", "buffered", "unbuffered"}

NewShutdownManager(kind) ==
    /\ ~sm.built
    /\ sm' = [NoManager EXCEPT !.built = TRUE,
                               !.notify = (kind = "notify"),
                               !.cap = IF kind = "unbuffered" THEN 0 ELSE 1]
    /\ UNCHANGED <<ctxVars, restOfShutdown>>

\* WithContext: context.WithCancel(parent), which is born cancelled under a
\* cancelled parent, and the goroutine that watches the parent and the signals.
WithContext ==
    /\ sm.built
    /\ sm.watcher = "none"
    /\ sm' = [sm EXCEPT !.watcher = "select"]
    /\ cancelled' = IF Done("parent") THEN cancelled \cup {"run"} ELSE cancelled
    /\ UNCHANGED restOfShutdown

\* The parent context is cancelled: a context made by WithCancel(parent) is
\* cancelled with it.
ParentCancel ==
    /\ sm.built
    /\ ~Done("parent")
    /\ cancelled' = cancelled \cup {"parent"} \cup
                       (IF sm.watcher = "none" THEN {} ELSE {"run"})
    /\ UNCHANGED <<shutdownVars, configVars, batcherVars, restOfShutdown>>

\* The cancel function that WithContext returned is called.
CallCancel ==
    /\ sm.watcher /= "none"
    /\ sm.cancelCalls < MaxCancelCalls
    /\ sm' = [sm EXCEPT !.cancelCalls = @ + 1]
    /\ cancelled' = cancelled \cup {"run"}
    /\ UNCHANGED restOfShutdown

\* A signal is raised. signal.Notify does not block: the signal is dropped
\* when the channel is full. A test's send on its own channel waits for room,
\* or for the receiver when the channel has no buffer.
RaiseSignal ==
    /\ sm.built
    /\ sm.raised < MaxSignals
    /\ IF sm.notify
       THEN sm' = [sm EXCEPT !.raised = @ + 1,
                             !.pending = IF sm.pending < sm.cap THEN @ + 1 ELSE @]
       ELSE IF sm.cap > 0
       THEN /\ sm.pending < sm.cap
            /\ sm' = [sm EXCEPT !.raised = @ + 1, !.pending = @ + 1]
       ELSE /\ sm.watcher = "select"
            /\ sm' = [sm EXCEPT !.raised = @ + 1, !.watcher = "signal"]
    /\ UNCHANGED <<ctxVars, restOfShutdown>>

\* Mutant of WatcherSignal: the goroutine goes on without taking the signal.
WatcherSignalLost ==
    /\ sm.watcher = "select"
    /\ sm.pending > 0
    /\ sm' = [sm EXCEPT !.watcher = "exited"]
    /\ UNCHANGED <<ctxVars, restOfShutdown>>

\* The goroutine's select, case sig := <-sm.signals.
WatcherSignal ==
    /\ sm.watcher = "select"
    /\ sm.pending > 0
    /\ sm' = [sm EXCEPT !.pending = @ - 1, !.watcher = "signal"]
    /\ UNCHANGED <<ctxVars, restOfShutdown>>

\* After the signal is logged: cancel(), and the goroutine ends.
WatcherCancel ==
    /\ sm.watcher = "signal"
    /\ sm' = [sm EXCEPT !.watcher = "exited"]
    /\ cancelled' = cancelled \cup {"run"}
    /\ UNCHANGED restOfShutdown

\* The goroutine's select, case <-parent.Done(): cancel(), and it ends.
WatcherParentDone ==
    /\ sm.watcher = "select"
    /\ Done("parent")
    /\ sm' = [sm EXCEPT !.watcher = "exited"]
    /\ cancelled' = cancelled \cup {"run"}
    /\ UNCHANGED restOfShutdown

NextShutdown ==
    \/ \E kind \in ManagerKinds : NewShutdownManager(kind)
    \/ WithContext
    \/ ParentCancel
    \/ CallCancel
    \/ RaiseSignal
    \/ WatcherSignal
    \/ WatcherCancel
    \/ WatcherParentDone

SpecShutdown == Init /\ [][NextShutdown]_vars

\* The watching goroutine is scheduled: a select with a ready case is taken,
\* and the goroutine goes on to call cancel.
FairShutdown ==
    SpecShutdown /\ WF_vars(WatcherSignal) /\ WF_vars(WatcherCancel)
                 /\ WF_vars(WatcherParentDone)

\* A signal has arrived on the channel, or has been handed to the goroutine.
SignalArrived == sm.pending > 0 \/ sm.watcher = "signal"

\* C22: with the context of WithContext made, a cancelled parent and a call
\* of the cancel function mean a cancelled context, and a signal that has
\* arrived leads to one; a cancelled context stays cancelled; and a step of
\* the manager taken on a cancelled context (a second signal, a second
\* cancel, the goroutine ending) leaves every context as it is.
C22_CancelledOnceAndForAll ==
    /\ []((sm.watcher /= "none" /\ (Done("parent") \/ sm.cancelCalls > 0))
             => Done("run"))
    /\ ((sm.watcher /= "none" /\ SignalArrived) ~> Done("run"))
    /\ [][Done("run") =>
            /\ Done("run")'
            /\ (sm' /= sm => cancelled' = cancelled)]_vars

\* The context has been cancelled by a first signal; a second signal has been
\* raised and the cancel function has been called twice.
C22_Witness ==
    /\ Done("run")
    /\ ~Done("parent")
    /\ sm.watcher = "exited"
    /\ sm.raised = 2
    /\ sm.cancelCalls = 2

\* ------------------------------------------------------ the gRPC handlers

\* A string is the sequence of its runes, each with the number of bytes of
\* its UTF-8 form.
Rune(c) == [c |-> c, w |-> IF c = "e-acute" THEN 2 ELSE 1]

\* len(value): the number of bytes.
RECURSIVE ByteLen(_)
ByteLen(value) ==
    IF value = <<>> THEN 0 ELSE value[1].w + ByteLen(Tail(value))

\* The index that range gives the k-th rune: the byte it starts at.
ByteIndex(value, k) == ByteLen(SubSeq(value, 1, k - 1))

UUIDLength == 36
HyphenAt == {8, 13, 18, 23}
HexDigits == {"0", "1", "2", "3", "4", "5", "6", "7", "8", "9",
              "a", "b", "c", "d", "e", "f", "A", "B", "C", "D", "E", "F"}

isHexDigit(r) == r.c \in HexDigits

\* Mutant of isValidUUID: only the length is checked.
isValidUUIDByLength(value) == ByteLen(value) = UUIDLength

\* isValidUUID: 36 bytes, '-' at the indices 8, 13, 18 and 23, a hex digit
\* at every other one.
isValidUUID(value) ==
    /\ ByteLen(value) = UUIDLength
    /\ \A k \in DOMAIN value :
          IF ByteIndex(value, k) \in HyphenAt
          THEN value[k].c = "-"
          ELSE isHexDigit(value[k])

\* The ids of the requests: canonical ones in lower and upper case, and
\* strings that differ from one in a rune or in length.
CanonicalId(c) ==
    [k \in 1 .. UUIDLength |-> Rune(IF (k - 1) \in HyphenAt THEN "-" ELSE c)]
WithRune(value, k, c) == [value EXCEPT ![k] = Rune(c)]
ValidIds == {CanonicalId("0"), CanonicalId("a"), WithRune(CanonicalId("a"), 1, "F")}
InvalidIds ==
    {<<>>,
     SubSeq(CanonicalId("0"), 1, UUIDLength - 1),
     Append(CanonicalId("0"), Rune("0")),
     [k \in 1 .. UUIDLength |-> Rune("0")],
     WithRune(CanonicalId("0"), 9, "0"),
     WithRune(CanonicalId("0"), 1, "-"),
     WithRune(CanonicalId("0"), 36, "g"),
     WithRune(SubSeq(CanonicalId("0"), 1, UUIDLength - 1), 2, "e-acute"),
     WithRune(SubSeq(CanonicalId("0"), 1, UUIDLength - 1), 9, "e-acute")}
RequestIds == ValidIds \cup InvalidIds

\* The reductions a test stores under valid ids.
HandlerReductions ==
    {[ID |-> CanonicalId("0"), Timestamp |-> 1000, MaxValue |-> 15],
     [ID |-> CanonicalId("a"), Timestamp |-> 2500, MaxValue |-> 42]}

\* GetByIDRequest and GetByTimeRangeRequest: a nil request is <<>>; a nil
\* timestamp is <<>>, and a timestamp may be out of the valid range.
ByIDRequests == {<<>>} \cup {<<[Id |-> id]>> : id \in RequestIds}
Timestamps ==
    {<<>>, <<[valid |-> FALSE, t |-> 1000]>>}
        \cup {<<[valid |-> TRUE, t |-> t]>> : t \in {1000, 2500, 3000}}
ByTimeRangeRequests ==
    {<<>>} \cup {<<[From |-> f, To |-> t]>> : f, t \in Timestamps}

\* The repository of the handler: none, or one over the map, whose call may
\* fail.
HandlerRepositories == {None, "memory"}
RepositoryOutcomes == {"ok", "error"}

\* The codes are the names of google.golang.org/grpc/codes.
\* status.Errorf(code, ...): no response, the code, and whether the
\* repository was called before.
StatusErr(code, called) == [code |-> code, response |-> <<>>, called |-> called]

\* convertPacket.
convertPacket(packet) ==
    [Id |-> packet.ID, Timestamp |-> packet.Timestamp, MaxValue |-> packet.MaxValue]

\* Handler.GetMaxByID.
GetMaxByID(req, repository, outcome) ==
    IF req = <<>> THEN StatusErr("InvalidArgument", FALSE)
    ELSE IF ~isValidUUID(req[1].Id) THEN StatusErr("InvalidArgument", FALSE)
    ELSE IF repository = None THEN StatusErr("Internal", FALSE)
    ELSE IF outcome /= "ok" THEN StatusErr("Internal", TRUE)
    ELSE LET packet == MemGetByID(data, req[1].Id)
         IN IF packet = <<>> THEN StatusErr("NotFound", TRUE)
            ELSE [code |-> "OK", response |-> <<convertPacket(packet[1])>>,
                  called |-> TRUE]

\* Handler.GetMaxByTimeRange; the set of the answers the call may give.
GetMaxByTimeRange(req, repository, outcome) ==
    IF req = <<>> THEN {StatusErr("InvalidArgument", FALSE)}
    ELSE IF req[1].From = <<>> \/ req[1].To = <<>>
    THEN {StatusErr("InvalidArgument", FALSE)}
    ELSE IF ~req[1].From[1].valid \/ ~req[1].To[1].valid
    THEN {StatusErr("InvalidArgument", FALSE)}
    ELSE IF ~(req[1].To[1].t > req[1].From[1].t)
    THEN {StatusErr("InvalidArgument", FALSE)}
    ELSE IF repository = None THEN {StatusErr("Internal", FALSE)}
    ELSE IF outcome /= "ok" THEN {StatusErr("Internal", TRUE)}
    ELSE {[code |-> "OK",
           response |-> [k \in DOMAIN found |-> convertPacket(found[k])],
           called |-> TRUE] :
             found \in MemGetByTimeRange(data, req[1].From[1].t, req[1].To[1].t)}

HandlerCalls ==
    Cardinality({i \in DOMAIN readLog :
                    readLog[i].op \in {"GetMaxByID", "GetMaxByTimeRange"}})

CallGetMaxByID(req, repository, outcome) ==
    /\ HandlerCalls < MaxReads
    /\ readLog' = Append(readLog,
                    [op |-> "GetMaxByID", arg |-> req, repository |-> repository,
                     outcome |-> outcome, table |-> data,
                     answer |-> GetMaxByID(req, repository, outcome)])
    /\ UNCHANGED <<ctxVars, shutdownVars, configVars, batcherVars, startVars, data, driver, sourceVars,
                   poolVars, received, repoVars, saveVars, closeVars, appVars>>

CallGetMaxByTimeRange(req, repository, outcome) ==
    /\ HandlerCalls < MaxReads
    /\ \E answer \in GetMaxByTimeRange(req, repository, outcome) :
          readLog' = Append(readLog,
                       [op |-> "GetMaxByTimeRange", arg |-> req,
                        repository |-> repository, outcome |-> outcome,
                        table |-> data, answer |-> answer])
    /\ UNCHANGED <<ctxVars, shutdownVars, configVars, batcherVars, startVars, data, driver, sourceVars,
                   poolVars, received, repoVars, saveVars, closeVars, appVars>>

NextHandlers ==
    \/ \E r \in HandlerReductions : MemSave(<<r>>)
    \/ \E req \in ByIDRequests, repository \in HandlerRepositories,
          outcome \in RepositoryOutcomes :
          CallGetMaxByID(req, repository, outcome)
    \/ \E req \in ByTimeRangeRequests, repository \in HandlerRepositories,
          outcome \in RepositoryOutcomes :
          CallGetMaxByTimeRange(req, repository, outcome)

SpecHandlers == Init /\ [][NextHandlers]_vars

HandlerLog(op) == {readLog[i] : i \in {j \in DOMAIN readLog : readLog[j].op = op}}

\* A string of 36 one-byte runes with '-' at the indices 8, 13, 18, 23 and
\* hex digits elsewhere.
HyphenatedHex(value) ==
    /\ Len(value) = UUIDLength
    /\ \A k \in DOMAIN value :
          /\ value[k].w = 1
          /\ (k - 1) \in HyphenAt => value[k].c = "-"
          /\ (k - 1) \notin HyphenAt => value[k].c \in HexDigits

\* C23: GetMaxByID with an id that is not a 36-character hyphenated hex
\* string, and GetMaxByTimeRange with to <= from, answer InvalidArgument
\* without a call of the repository; with a repository, a valid id with no
\* stored row answers NotFound, and an error of the repository answers
\* Internal.
C23_ValidateBeforeRead ==
    /\ \A call \in HandlerLog("GetMaxByID") :
          LET a == call.answer
          IN IF call.arg = <<>> \/ ~HyphenatedHex(call.arg[1].Id)
             THEN a.code = "InvalidArgument" /\ ~a.called
             ELSE /\ a.code /= "InvalidArgument"
                  /\ call.repository /= None =>
                        /\ a.called
                        /\ call.outcome = "error" => a.code = "Internal"
                        /\ (call.outcome = "ok" /\ call.arg[1].Id \notin DOMAIN call.table)
                              => a.code = "NotFound"
                        /\ (call.outcome = "ok" /\ call.arg[1].Id \in DOMAIN call.table)
                              => a.code = "OK"
    /\ \A call \in HandlerLog("GetMaxByTimeRange") :
          LET a == call.answer
          IN /\ (/\ call.arg /= <<>>
                 /\ call.arg[1].From /= <<>> /\ call.arg[1].To /= <<>>
                 /\ call.arg[1].To[1].t <= call.arg[1].From[1].t)
                => (a.code = "InvalidArgument" /\ ~a.called)
             /\ (a.called /\ call.outcome = "error") => a.code = "Internal"
             /\ a.code = "InvalidArgument" => ~a.called

\* A request with a malformed id of 36 bytes has been refused without a call
\* of the repository.
C23_Witness ==
    \E call \in HandlerLog("GetMaxByID") :
        /\ call.arg /= <<>>
        /\ ByteLen(call.arg[1].Id) = UUIDLength
        /\ ~HyphenatedHex(call.arg[1].Id)
        /\ call.repository /= None
        /\ call.answer.code = "InvalidArgument"
        /\ ~call.answer.called

\* ------------------------------------------ claims on Save against Close

\* C24: a Save call that Close overtakes (it started before closing was set)
\* returns nil, its context's error or ErrRepositoryClosed, or the flush error
\* it carries; it never sends on the closed intake channel.
C24_NoSendOnClosedIntake ==
    \A i \in 1 .. Len(saveLog) :
        /\ saveLog[i].ret /= Panic
        /\ \/ saveLog[i].ret \in {Nil, CtxErr, ErrRepositoryClosed}
           \/ saveLog[i].ret[1] = "flush"

\* C25: while the repository is open, a Save call whose context is not
\* cancelled puts every reduction of its batch on the intake, whatever it
\* returns: also after a flush has failed and the call returns that error.
C25_IntakeLive ==
    closing = 0 =>
        \A i \in 1 .. Len(saveLog) :
            saveLog[i].ret /= CtxErr => saveLog[i].sent = saveLog[i].len

\* --------------------------------------------- claims on Close's deadline

\* The reductions put on the intake that have no row in the store.
LostRows == {i \in 1 .. Len(enqLog) : enqLog[i].ID \notin DOMAIN rows}

\* C26: a Close call whose context had expired when it was made, the flusher
\* not having drained, returns the context's error; and once the flusher has
\* terminated, reductions of the intake that are absent from the store mean
\* an error in the last-error slot.
C26_CloseTimeout ==
    /\ (Len(closeLog) > 0 /\ app.atClose /= <<>> /\ app.atClose[1].expired)
          => closeLog[1].ret = CtxErr
    /\ (repoDone /\ LostRows /= {}) => lastErr /= Nil

\* ------------------------------------------------ claims on the batches

\* The statements the flusher executed, as positions of the flush log: a
\* statement starts at an entry marked first and ends before the next one.
StatementStarts == {i \in 1 .. Len(flushLog) : flushLog[i].first}

StatementEnd(i) ==
    CHOOSE j \in i .. Len(flushLog) :
        /\ \A k \in (i + 1) .. j : ~flushLog[k].first
        /\ j = Len(flushLog) \/ flushLog[j + 1].first

ExecutedBatch(i) == [k \in 1 .. (StatementEnd(i) - i + 1) |-> flushLog[i + k - 1].r]

\* The placeholders of a statement, in the order of its text.
PlaceholdersOf(stmt) ==
    [k \in 1 .. Len(stmt.placeholders) * ParamsPerRow |->
        stmt.placeholders[((k - 1) \div ParamsPerRow) + 1][((k - 1) % ParamsPerRow) + 1]]

\* C27: between two steps of the flusher the buffer holds fewer than
\* batch_size rows (a buffer that reaches batch_size is flushed in the same
\* step); every executed upsert carries between 1 and batch_size rows and
\* binds 3 positional parameters per row, $1 .. $3n for n rows with 3n
\* arguments; and a step taken with an empty buffer that receives nothing
\* from the intake (a tick, the intake closure) executes no statement.
C27_BatchSizing ==
    /\ [](/\ Len(buffer) < BatchSize
          /\ \A i \in StatementStarts :
                LET batch == ExecutedBatch(i)
                    stmt  == buildInsert(batch)
                IN  /\ Len(batch) \in 1 .. BatchSize
                    /\ \A r \in 1 .. Len(stmt.placeholders) :
                           Len(stmt.placeholders[r]) = 3
                    /\ Len(stmt.placeholders) = Len(batch)
                    /\ PlaceholdersOf(stmt) = [k \in 1 .. 3 * Len(batch) |-> k]
                    /\ Len(stmt.args) = 3 * Len(batch))
    /\ [][(buffer = <<>> /\ queue' = queue)
             => /\ flushLog' = flushLog
                /\ rows' = rows
                /\ buffer' = <<>>]_vars

\* The flusher has executed a full batch when the buffer reached batch_size
\* and has then terminated on the intake closure with an empty buffer: no
\* statement is one of the closure.
C27_Witness ==
    /\ repoDone
    /\ \E i \in StatementStarts :
          Len(ExecutedBatch(i)) = BatchSize /\ flushLog[i].by = "size"
    /\ \A i \in StatementStarts : flushLog[i].by /= "closed"

\* C28: the flush log only grows, by one statement at most in one step; the
\* rows of the executed statements in flush order, then the buffer, then the
\* intake are the reductions in the order in which Save put them on the
\* intake (so the flushed rows are a prefix of them, and all of them once
\* the flusher has terminated); and the k-th VALUES tuple of a statement
\* binds the id, timestamp and maximum of the k-th row of its batch.
C28_ArrivalOrder ==
    /\ [](/\ FlushedRows \o buffer \o queue = enqLog
          /\ repoDone => FlushedRows = enqLog
          /\ \A i \in StatementStarts :
                LET batch  == ExecutedBatch(i)
                    values == BoundValues(buildInsert(batch))
                IN  /\ Len(values) = Len(batch)
                    /\ \A k \in 1 .. Len(batch) :
                          values[k] = <<batch[k].ID, batch[k].Timestamp,
                                        batch[k].MaxValue>>)
    /\ [][/\ Len(flushLog') >= Len(flushLog)
          /\ SubSeq(flushLog', 1, Len(flushLog)) = flushLog
          /\ Cardinality(StatementStarts') <= Cardinality(StatementStarts) + 1]_vars

\* Two reductions went on the intake in two Save calls and were flushed in
\* one statement of two rows.
C28_Witness ==
    /\ Len(saveLog) = 2
    /\ saveLog[1].sent = 1 /\ saveLog[2].sent = 1
    /\ Len(enqLog) = 2
    /\ enqLog[1] /= enqLog[2]
    /\ StatementStarts = {1}
    /\ Len(ExecutedBatch(1)) = 2

\* ------------------------------------------- claims on the last-error slot

\* The statements the database did not execute.
FailedStarts == {i \in StatementStarts : flushLog[i].outcome /= "ok"}

\* C29: the last-error slot is empty as long as no flush has failed, and
\* holds the error of the first failed flush from then on, whatever the
\* number of failures and of successful flushes that follow; a step never
\* changes a slot that holds an error.
C29_FirstErrorLatch ==
    /\ [](IF FailedStarts = {}
          THEN lastErr = Nil
          ELSE lastErr = FlushErr(CHOOSE i \in FailedStarts :
                                     \A j \in FailedStarts : i <= j))
    /\ [][lastErr /= Nil => lastErr' = lastErr]_vars

\* Two flushes have failed and no Save call has returned an error of a
\* flush; the slot holds the error of the first one.
C29_Witness ==
    /\ Cardinality(FailedStarts) = 2
    /\ \A i \in 1 .. Len(saveLog) : saveLog[i].ret[1] /= "flush"
    /\ lastErr = FlushErr(1)

\* ------------------------------------------------- Save on a full intake

\* Reductions of the one Save call: more than the intake holds.
LongBatch == QueueSize + 1

\* One caller saves LongBatch reductions under a context of its own, which
\* may be cancelled at any moment of the call.
CallSaveLong(ids) ==
    /\ nPassed = 0
    /\ SaveBegin(1, BatchOf(ids, 0), SaveCtx(1))
    /\ UNCHANGED appVars

NextFull ==
    \/ \E ids \in [1 .. LongBatch -> PacketIds] : CallSaveLong(ids)
    \/ SaveCheckError(1)
    \/ SaveSend(1)
    \/ SaveCancelled(1)
    \/ SavePanics(1)
    \/ SaveFinish(1)
    \/ CallClose(1)
    \/ CloseQueue(1)
    \/ CancelClose(1)
    \/ CloseCancelled(1)
    \/ \E err \in {Nil, DbCloseErr} : CloseDB(1, err)
    \/ \E outcome \in Outcomes : FlusherReceive(outcome)
    \/ \E outcome \in Outcomes : FlusherTick(outcome)
    \/ \E outcome \in Outcomes : FlusherClosed(outcome)

SpecFull == Init /\ [][NextFull]_vars

\* The Save call of saver s waits in its select: the intake is open and full.
BlockedOnFullIntake(s) ==
    /\ savers[s].pc = "send"
    /\ queueCloses = 0
    /\ Len(queue) = QueueSize

\* The reductions of batch b on the intake log, in the order of the log.
EnqueuedOf(b) ==
    LET InBatch(r) == \E k \in 1 .. Len(b) : b[k] = r
    IN  SelectSeq(enqLog, InBatch)

\* C30: the next step of a Save call blocked on a full intake is the return
\* of its context's error, and that step puts nothing on the intake; a Save
\* call that has returned its context's error has put on the intake a proper
\* prefix of its batch, in batch order, and nothing else of it; what Save put
\* on the intake is in the intake, in the flusher's buffer or in an executed
\* statement; and once the call has returned the intake log does not grow.
C30_SaveCancellation ==
    /\ [](/\ \A i \in 1 .. Len(saveLog) :
                saveLog[i].ret = CtxErr =>
                    /\ saveLog[i].sent < saveLog[i].len
                    /\ EnqueuedOf(saveLog[i].batch)
                          = SubSeq(saveLog[i].batch, 1, saveLog[i].sent)
          /\ FlushedRows \o buffer \o queue = enqLog)
    /\ [][/\ (BlockedOnFullIntake(1) /\ savers' /= savers)
              => /\ Len(saveLog') = Len(saveLog) + 1
                 /\ saveLog'[Len(saveLog')].ret = CtxErr
                 /\ saveLog'[Len(saveLog')].sent = savers[1].i - 1
                 /\ enqLog' = enqLog
                 /\ queue' = queue
          /\ (Len(saveLog) > 0 /\ savers[1].pc = "idle") => enqLog' = enqLog]_vars

\* The call has sent as many reductions as the intake holds, none of them
\* received yet, and has returned its context's error for the next one.
C30_Witness ==
    /\ Len(saveLog) = 1
    /\ saveLog[1].ret = CtxErr
    /\ saveLog[1].len = LongBatch
    /\ saveLog[1].sent = QueueSize
    /\ queue = SubSeq(saveLog[1].batch, 1, QueueSize)

\* --------------------------------------------------------- flush by age

\* A repository with its flush timer running that is never closed: Save
\* calls and the flusher.
NextAge ==
    \/ \E s \in Savers, ids \in IdBatches(MaxItems - nPassed) : CallSave(s, ids)
    \/ \E s \in Savers : SaveCheckError(s)
    \/ \E s \in Savers : SaveSend(s)
    \/ \E s \in Savers : SaveCancelled(s)
    \/ \E s \in Savers : SaveFinish(s)
    \/ \E outcome \in Outcomes : FlusherReceive(outcome)
    \/ \E outcome \in Outcomes : FlusherTick(outcome)

SpecAge == Init /\ [][NextAge]_vars

\* The flusher goroutine is scheduled, so that a reduction ready on the
\* intake is received, and the ticker goes on firing, so that the tick case
\* of the select is taken again and again.
FairAge ==
    /\ SpecAge
    /\ WF_vars(\E outcome \in Outcomes : FlusherReceive(outcome))
    /\ WF_vars(\E outcome \in Outcomes : FlusherTick(outcome))

\* C31: without any Close call, the k-th reduction put on the intake is
\* eventually a row of an executed statement, for every k, whether or not
\* another Save follows and the buffer fills.
C31_FlushByAge ==
    \A k \in 1 .. MaxItems : (Len(enqLog) >= k) ~> (Len(flushLog) >= k)

\* One reduction was saved and nothing else; the repository is open and the
\* reduction went to the database alone, on a tick.
C31_Witness ==
    /\ closing = 0
    /\ Len(saveLog) = 1
    /\ \A s \in Savers : savers[s].pc = "idle"
    /\ Len(enqLog) = 1
    /\ Len(flushLog) = 1
    /\ flushLog[1].by = "tick"

\* ------------------------------------------------ the flush interval option

\* Arguments of WithFlushInterval: none, a negative one, half a second.
TestIntervals == {0, 0 - 1, 2 * defaultFlushInterval}

OptionsWithInterval(interval) ==
    <<[kind |-> "batchSize", value |-> BatchSize],
      [kind |-> "queueSize", value |-> QueueSizeOpt],
      [kind |-> "flushInterval", value |-> interval]>>

\* NewRepository(db, WithBatchSize, WithQueueSize, WithFlushInterval(interval)):
\* the repository of the run is built with this interval.
BuildWithInterval(interval) ==
    /\ cfg.opts = TestOptions
    /\ cfg' = NewRepository(OptionsWithInterval(interval))
    /\ UNCHANGED <<ctxVars, readVars, startVars, shutdownVars, batcherVars,
                   sourceVars, poolVars, received, repoVars, saveVars, closeVars,
                   appVars>>

IntervalChosen == cfg.opts /= TestOptions

NextInterval ==
    \/ \E interval \in TestIntervals : BuildWithInterval(interval)
    \/ \E ids \in IdBatches(MaxItems - nPassed) : IntervalChosen /\ CallSave(1, ids)
    \/ IntervalChosen /\ SaveCheckError(1)
    \/ IntervalChosen /\ SaveSend(1)
    \/ IntervalChosen /\ SaveFinish(1)
    \/ IntervalChosen /\ CallClose(1)
    \/ IntervalChosen /\ CloseQueue(1)
    \/ \E err \in {Nil, DbCloseErr} : IntervalChosen /\ CloseDB(1, err)
    \/ \E outcome \in Outcomes : IntervalChosen /\ FlusherReceive(outcome)
    \/ \E outcome \in Outcomes : IntervalChosen /\ FlusherTick(outcome)
    \/ \E outcome \in Outcomes : IntervalChosen /\ FlusherClosed(outcome)

SpecInterval == Init /\ [][NextInterval]_vars

\* C32: a repository built with WithFlushInterval(0) has no flush interval,
\* and every statement it executes is one of a full buffer or of the intake
\* closure.
C32_ZeroDisablesTimer ==
    (IntervalChosen /\ cfg.opts[3].value = 0) =>
        /\ cfg.flushInterval = 0
        /\ \A i \in 1 .. Len(flushLog) : flushLog[i].by \in {"size", "closed"}

\* ------------------------------------------------- the intake's capacity

\* Arguments of WithBatchSize and of WithQueueSize.
TestBatchSizes == {0 - 1, 0, 1, 2, 10, 99, 100, 101, 400, 500}
TestQueueSizes == {0 - 1, 0, 1, 2, 10, 100, 399, 400, 401, 2000}

\* The option lists: each of the two options given once or not at all.
SizeOptions ==
    {b \o q : b \in {<<>>} \cup {<<[kind |-> "batchSize", value |-> n]>> : n \in TestBatchSizes},
              q \in {<<>>} \cup {<<[kind |-> "queueSize", value |-> n]>> : n \in TestQueueSizes}}

\* NewRepository(db, opts...).
BuildWithSizes(opts) ==
    /\ cfg.opts = TestOptions
    /\ cfg' = NewRepository(opts)
    /\ UNCHANGED <<ctxVars, readVars, startVars, shutdownVars, batcherVars,
                   sourceVars, poolVars, received, repoVars, saveVars, closeVars,
                   appVars>>

SpecSizes == Init /\ [][\E opts \in SizeOptions : BuildWithSizes(opts)]_vars

QueueSizeGiven == \E i \in 1 .. Len(cfg.opts) : cfg.opts[i].kind = "queueSize"

\* C36: without a WithQueueSize option the intake of the new repository has
\* capacity max(batch_size, batch_size * 4) for the batch size it runs with;
\* with the option its capacity is at least that batch size.
C36_IntakeCapacity ==
    cfg.opts /= TestOptions =>
        IF QueueSizeGiven
        THEN cfg.queueCap >= cfg.batchSize
        ELSE cfg.queueCap = (IF cfg.batchSize * 4 > cfg.batchSize
                             THEN cfg.batchSize * 4 ELSE cfg.batchSize)

\* ----------------------------------------------- claims on the close context

\* The flush log entries a step adds.
NewFlushes == {i \in 1 .. Len(flushLog') : i > Len(flushLog)}

\* C33: the close context is stored by the Close call that won the
\* compare-and-swap on closing, as its own context, and never changes once
\* stored; the statement of the intake closure is executed under that
\* context, so that it fails with the context's error exactly when that
\* context is done; a statement executed while the repository is open is
\* executed under the background context and never fails with a context's
\* error.
C33_CloseContextOnce ==
    /\ [](closeCtx /= NoCtx => closing = 1)
    /\ [][/\ \A c \in Closers :
                (closers[c].pc = "closeQueue" /\ closers'[c].pc /= "closeQueue")
                    => closers[c].won /\ closeCtx' = closers[c].ctx
          /\ closeCtx /= NoCtx => closeCtx' = closeCtx
          /\ closeCtx' /= closeCtx
                => \E c \in Closers : closers[c].won /\ closeCtx' = closers[c].ctx
          /\ \A i \in NewFlushes :
                /\ flushLog'[i].by = "closed"
                      => /\ closeCtx /= NoCtx
                         /\ flushLog'[i].outcome = "context" <=> Done(closeCtx)
                /\ closing = 0 => flushLog'[i].outcome /= "context"]_vars

\* Two Close calls were made with different contexts, the context of the
\* second one still live; the final flush ran under the expired context of
\* the first one and failed, an earlier flush went through.
C33_Witness ==
    /\ Len(closeLog) = 2
    /\ closeCtx = CloseCtx(1)
    /\ Done(CloseCtx(1))
    /\ ~Done(CloseCtx(2))
    /\ \E i, j \in 1 .. Len(flushLog) :
          /\ flushLog[i].by = "tick" /\ flushLog[i].outcome = "ok"
          /\ flushLog[j].by = "closed" /\ flushLog[j].outcome = "context"

\* ------------------------------------------- claims on the cancelled worker

\* C34: a worker returns only on the closed and empty packet channel, and a
\* worker that has seen the cancellation stays in drainPackets, where it can
\* take the next packet of the channel; as long as the channel is not closed
\* no worker has returned, the result channel and done are not closed, and
\* a Shutdown call that has returned has returned its context's error.
C34_DrainUntilInputClosed ==
    /\ [](/\ \A w \in Workers :
                (workers[w].pc = "drain" /\ Len(packets) > 0)
                    => ENABLED WorkerReceive(w)
          /\ ~packetsClosed =>
                /\ \A w \in Workers : workers[w].pc /= "returned"
                /\ resultsCloses = 0
                /\ ~wpDone
                /\ app.pc \in {"waitFor", "close", "closing", "returned"}
                      => app.shutdownRet = CtxErr)
    /\ [][\A w \in Workers :
             /\ (workers[w].pc /= "returned" /\ workers'[w].pc = "returned")
                   => packetsClosed /\ Len(packets) = 0
             /\ workers[w].pc \in {"drain", "drainPublish"}
                   => workers'[w].pc \in {"drain", "drainPublish", "returned"}]_vars

\* After the cancellation a worker has taken a packet in drainPackets and
\* published its reduction, the source has not closed its output yet, and
\* Shutdown has ended with the deadline error.
C34_Witness ==
    /\ Done("run")
    /\ ~packetsClosed
    /\ \E w \in Workers : workers[w].pc = "drain"
    /\ Len(results) > 0
    /\ app.pc = "waitFor"
    /\ app.shutdownRet = CtxErr

\* ------------------------------------------------------ bounded shutdown

\* Run's goroutine is scheduled, its selects take a case that stays ready,
\* and the timer of the cleanup context fires. Nothing is assumed of the
\* source, the workers, the consumer and the flusher.
FairApp ==
    /\ SpecApp
    /\ WF_vars(RunStart)
    /\ WF_vars(RunObserveCancel)
    /\ WF_vars(CleanupExpire)
    /\ WF_vars(\E ret \in {Nil, CtxErr} : RunShutdown(ret))
    /\ WF_vars(\E ret \in {Nil, CtxErr} : RunWaitFor(ret))
    /\ WF_vars(RunClose)
    /\ WF_vars(CloseQueue(1))
    /\ WF_vars(CloseCancelled(1) \/ \E err \in {Nil, DbCloseErr} : CloseDB(1, err))
    /\ WF_vars(RunFinish)

\* C35: once the run context is cancelled Run eventually returns, and once
\* the cleanup context has expired each wait of Run that is under way ends.
C35_BoundedShutdown ==
    /\ Done("run") ~> (app.pc = "returned")
    /\ \A pc \in {"shutdown", "waitFor", "closing"} :
          (app.pc = pc /\ Done("cleanup")) ~> (app.pc /= pc)

\* ------------------------------------------------------- the value range

\* A signed 64-bit integer that is not negative, as three limbs of LimbBits
\* bits, the most significant first: <<a, b, c>> is a * 2^42 + b * 2^21 + c.
LimbBits == 21
Limb == 2 ^ LimbBits
\* The build is GOARCH=amd64: int has 64 bits.
IntBits == 64
\* max_value INTEGER: PostgreSQL's four-byte integer, at most 2^31 - 1.
IntegerBits == 32

Less64(x, y) ==
    \/ x[1] < y[1]
    \/ x[1] = y[1] /\ x[2] < y[2]
    \/ x[1] = y[1] /\ x[2] = y[2] /\ x[3] < y[3]

MaxInt32 == <<0, 2 ^ (IntegerBits - 1 - LimbBits) - 1, Limb - 1>>
MaxInt63 == <<Limb - 1, Limb - 1, Limb - 1>>

\* What rnd.Int63() may give: the ends of its range and values around the
\* end of the column's range.
TestValues == {<<0, 0, 0>>, <<0, 0, 42>>, MaxInt32, <<0, 2 ^ (IntegerBits - 1 - LimbBits), 0>>,
               <<1, 0, 0>>, MaxInt63}

\* generatePayload: PayloadLen values of rnd.Int63().
TestPayloads == UNION {[1 .. n -> TestValues] : n \in 1 .. 3}

\* computeMax on 64-bit values: the loop of lines 114-119.
RECURSIVE computeMax64From(_, _, _)
computeMax64From(payload, i, maxValue) ==
    IF i > Len(payload) THEN maxValue
    ELSE computeMax64From(payload, i + 1,
                          IF Less64(maxValue, payload[i]) THEN payload[i] ELSE maxValue)

computeMax64(payload) ==
    IF Len(payload) = 0 THEN <<0, 0, 0>> ELSE computeMax64From(payload, 2, payload[1])

\* int(v) of a non-negative int64: the low IntBits bits.
IntOf(v) ==
    IF IntBits >= 3 * LimbBits THEN v
    ELSE IF IntBits >= 2 * LimbBits THEN <<v[1] % (2 ^ (IntBits - 2 * LimbBits)), v[2], v[3]>>
    ELSE <<0, v[2] % (2 ^ (IntBits - LimbBits)), v[3]>>

\* processPacket on a packet with this payload.
processPacket(packet) ==
    [ID        |-> UUIDString(packet.ID),
     Timestamp |-> packet.Timestamp,
     MaxValue  |-> IntOf(computeMax64(packet.Payload))]

\* The value fits the column max_value.
InInteger(v) == v[1] = 0 /\ v[2] < 2 ^ (IntegerBits - 1 - LimbBits)

\* db.ExecContext of the upsert on a reachable database: a max_value out of
\* the range of INTEGER is refused and the statement changes nothing.
ExecInteger(table, stmt) ==
    IF \E i \in 1 .. Len(BoundValues(stmt)) : ~InInteger(BoundValues(stmt)[i][3])
    THEN [outcome |-> "range", table |-> table]
    ELSE [outcome |-> "ok", table |-> ExecUpsert(table, stmt)]

\* One packet of the source goes through a worker, Save, the flush of its
\* reduction into an empty table and GetByID of its id.
RoundTrip(payload) ==
    /\ readLog = <<>>
    /\ LET packet == [ID |-> 1, Timestamp |-> TimestamptzResolution, Payload |-> payload]
           r      == processPacket(packet)
           exec   == ExecInteger([id \in {} |-> None], buildInsert(<<r>>))
           read   == GetByID(exec.table, r.ID, "ok")
       IN  readLog' = <<[op |-> "RoundTrip", arg |-> payload, saved |-> r,
                         outcome |-> exec.outcome, result |-> read.result,
                         err |-> read.err]>>
    /\ UNCHANGED <<ctxVars, data, driver, startVars, shutdownVars, configVars, batcherVars,
                   sourceVars, poolVars, received, repoVars, saveVars, closeVars,
                   appVars>>

SpecRange == Init /\ [][\E payload \in TestPayloads : RoundTrip(payload)]_vars

\* The largest value of a payload.
IsMaxOf(v, payload) ==
    /\ \E i \in 1 .. Len(payload) : payload[i] = v
    /\ \A i \in 1 .. Len(payload) : ~Less64(v, payload[i])

\* C37: for every payload of values up to 2^63 - 1 the reduction carries the
\* largest value of the payload, its flush succeeds and GetByID gives that
\* value back.
C37_ValueRange ==
    \A i \in DOMAIN readLog :
        readLog[i].op = "RoundTrip" =>
            /\ IsMaxOf(readLog[i].saved.MaxValue, readLog[i].arg)
            /\ readLog[i].outcome = "ok"
            /\ Len(readLog[i].result) = 1
            /\ readLog[i].err = Nil
            /\ readLog[i].result[1].MaxValue = readLog[i].saved.MaxValue

\* A Close call returns in this step, and LastClose is what it returned.
CloseReturnsNow == Len(closeLog') = Len(closeLog) + 1

LastClose == closeLog'[Len(closeLog')].ret

\* C38: the connection is released only by a step of a Close call that has
\* observed the flusher's exit and returns closeDB's result. A Close call that
\* returns its context's error leaves the connection as it is, the flusher's
\* exit does not release it, and as long as every Close call returned its
\* context's error the connection is open, whether the flusher has exited or
\* not.
C38_ReleaseOnlyAfterExit ==
    /\ []((\A i \in 1 .. Len(closeLog) : closeLog[i].ret = CtxErr) => dbCloses = 0)
    /\ [][ /\ dbCloses' /= dbCloses =>
               /\ repoDone
               /\ CloseReturnsNow
               /\ LastClose /= CtxErr
           /\ (CloseReturnsNow /\ LastClose = CtxErr) => dbCloses' = dbCloses
           /\ repoDone' /= repoDone => dbCloses' = dbCloses
           /\ closers' = closers => dbCloses' = dbCloses ]_vars

\* C38 witness: the only Close call so far gave up on its context, the flusher
\* has exited since, no Close call is running, and the connection is open.
C38_Witness ==
    /\ Len(closeLog) = 1
    /\ closeLog[1].ret = CtxErr
    /\ closeLog[1].won
    /\ \A c \in Closers : closers[c].pc = "idle"
    /\ repoDone
    /\ dbCloses = 0

\* ------------------------------------------------- the stop-channel batcher

\* database.Repository (app/src/database/postgres.go): Add puts a PacketMax on
\* the buffer channel, run batches and writes, Close closes stopCh and waits
\* for run.
MaxAdds == 3
MaxBatcherCloses == 2
AddCallers == {1, 2}
CloseCallers == {1, 2}

\* Config values of a test: all defaults, a batch of two with a timeout, a
\* negative timeout with a buffer larger than the batch.
TestTimeout == 100
TestConfigs ==
    {[BatchSize |-> 0, BatchTimeout |-> 0, BufferSize |-> 0],
     [BatchSize |-> 2, BatchTimeout |-> TestTimeout, BufferSize |-> 0],
     [BatchSize |-> 2, BatchTimeout |-> 0 - 1, BufferSize |-> 3]}

\* The ids of a PacketMax: empty, a text ParseUUID refuses, a UUID.
TestPacketMaxes ==
    {[PacketID |-> "uuid", SourceID |-> "uuid"],
     [PacketID |-> "", SourceID |-> "uuid"],
     [PacketID |-> "uuid", SourceID |-> "malformed"]}

ErrInvalid(n) == <<"invalid", n>>

\* constants.ParseUUID succeeds.
ParsesAsUUID(text) == text = "uuid"

\* validatePacketMax: both ids are required and must parse.
validatePacketMax(packetMax) ==
    IF packetMax.PacketID = "" THEN ErrInvalid(1)
    ELSE IF ~ParsesAsUUID(packetMax.PacketID) THEN ErrInvalid(2)
    ELSE IF packetMax.SourceID = "" THEN ErrInvalid(3)
    ELSE IF ~ParsesAsUUID(packetMax.SourceID) THEN ErrInvalid(4)
    ELSE Nil

IdleAdder == [pc |-> "idle", packetMax |-> <<>>, done |-> FALSE]
IdleBatcherCloser == [pc |-> "idle", alreadyClosed |-> FALSE]

\* New, lines 98-127: the sizes are normalised, the channels made and run
\* started.
New(config) ==
    LET batchSize == IF config.BatchSize <= 0 THEN 1 ELSE config.BatchSize
        bufferSize == IF config.BufferSize <= 0 THEN batchSize ELSE config.BufferSize
        batchTimeout == IF config.BatchTimeout < 0 THEN 0 ELSE config.BatchTimeout
    IN  [built        |-> TRUE,
         batchSize    |-> batchSize,
         batchTimeout |-> batchTimeout,
         bufferSize   |-> bufferSize,
         buffer       |-> <<>>,
         stopCh       |-> "open",
         closed       |-> FALSE,
         batch        |-> <<>>,
         timer        |-> FALSE,
         run          |-> "select",
         written      |-> <<>>,
         runnerCloses |-> 0,
         adders       |-> [a \in AddCallers |-> IdleAdder],
         closers      |-> [c \in CloseCallers |-> IdleBatcherCloser],
         addLog       |-> <<>>,
         closeLog     |-> <<>>]

\* The rest of the state, which the batcher leaves alone.
restOfBatcher == <<ctxVars, readVars, startVars, shutdownVars, configVars, sourceVars,
                   poolVars, received, repoVars, saveVars, closeVars, appVars>>

RepositoryNew(config) ==
    /\ ~batcher.built
    /\ batcher' = New(config)
    /\ UNCHANGED restOfBatcher

AddCalls(b) == Len(b.addLog) + Cardinality({a \in AddCallers : b.adders[a].pc /= "idle"})

BatcherCloseCalls(b) ==
    Len(b.closeLog) + Cardinality({c \in CloseCallers : b.closers[c].pc /= "idle"})

\* An Add call of caller a returns ret.
AddReturns(b, a, packetMax, ret) ==
    [b EXCEPT !.addLog = Append(@, [packetMax |-> packetMax, ret |-> ret,
                                     exited |-> b.run = "exited"]),
              !.adders[a] = IdleAdder]

\* Add, lines 153-165: validatePacketMax, then closed is read under the read
\* lock; the call goes on to its select only when closed was false.
RepositoryAdd(a, p) ==
    /\ batcher.built
    /\ batcher.adders[a].pc = "idle"
    /\ AddCalls(batcher) < MaxAdds
    /\ LET packetMax == [n |-> AddCalls(batcher) + 1, PacketID |-> p.PacketID,
                         SourceID |-> p.SourceID]
       IN  batcher' =
             IF validatePacketMax(p) /= Nil
             THEN AddReturns(batcher, a, packetMax, validatePacketMax(p))
             ELSE IF batcher.closed
             THEN AddReturns(batcher, a, packetMax, ErrRepositoryClosed)
             ELSE [batcher EXCEPT !.adders[a] =
                     [pc |-> "select", packetMax |-> packetMax, done |-> FALSE]]
    /\ UNCHANGED restOfBatcher

\* The context of a waiting Add call is cancelled.
CancelAdd(a) ==
    /\ batcher.built
    /\ batcher.adders[a].pc = "select"
    /\ ~batcher.adders[a].done
    /\ batcher' = [batcher EXCEPT !.adders[a].done = TRUE]
    /\ UNCHANGED restOfBatcher

\* Add's select, case <-ctx.Done().
AddCancelled(a) ==
    /\ batcher.built
    /\ batcher.adders[a].pc = "select"
    /\ batcher.adders[a].done
    /\ batcher' = AddReturns(batcher, a, batcher.adders[a].packetMax, CtxErr)
    /\ UNCHANGED restOfBatcher

\* Add's select, case <-stopCh.
AddStopped(a) ==
    /\ batcher.built
    /\ batcher.adders[a].pc = "select"
    /\ batcher.stopCh = "closed"
    /\ batcher' = AddReturns(batcher, a, batcher.adders[a].packetMax, ErrRepositoryClosed)
    /\ UNCHANGED restOfBatcher

\* Add's select, case buffer <- packetMax: ready while the channel has room,
\* whatever the state of stopCh.
AddSend(a) ==
    /\ batcher.built
    /\ batcher.adders[a].pc = "select"
    /\ Len(batcher.buffer) < batcher.bufferSize
    /\ batcher' = AddReturns([batcher EXCEPT !.buffer = Append(@, batcher.adders[a].packetMax)],
                             a, batcher.adders[a].packetMax, Nil)
    /\ UNCHANGED restOfBatcher

\* processBatch: every item of the batch is handed to writePacketMax, whose
\* error is only logged.
processBatch(b) == [b EXCEPT !.written = @ \o b.batch]

\* run's flush: nothing for an empty batch; else processBatch, the batch is
\* emptied and the timer deactivated.
batchFlush(b) ==
    IF Len(b.batch) = 0
    THEN b
    ELSE [processBatch(b) EXCEPT !.batch = <<>>, !.timer = FALSE]

\* run's activateTimer: a timer only for a positive batchTimeout.
activateTimer(b) == IF b.batchTimeout <= 0 THEN b ELSE [b EXCEPT !.timer = TRUE]

\* run's appendToBatch: the first item of a batch starts the timer, the
\* batchSize-th flushes.
appendToBatch(b, packetMax) ==
    LET b1 == [b EXCEPT !.batch = Append(@, packetMax)]
        b2 == IF Len(b1.batch) = 1 THEN activateTimer(b1) ELSE b1
    IN  IF Len(b2.batch) >= b2.batchSize THEN batchFlush(b2) ELSE b2

\* run's select, case packetMax := <-r.buffer.
RunReceive ==
    /\ batcher.built
    /\ batcher.run = "select"
    /\ Len(batcher.buffer) > 0
    /\ batcher' = appendToBatch([batcher EXCEPT !.buffer = Tail(@)], Head(batcher.buffer))
    /\ UNCHANGED restOfBatcher

\* run's select, case <-timeout: the timer of the open batch has fired.
RunTimeout ==
    /\ batcher.built
    /\ batcher.run = "select"
    /\ batcher.timer
    /\ batcher' = batchFlush(batcher)
    /\ UNCHANGED restOfBatcher

\* run's select, case <-r.stopCh: run enters its drain loop.
RunStop ==
    /\ batcher.built
    /\ batcher.run = "select"
    /\ batcher.stopCh = "closed"
    /\ batcher' = [batcher EXCEPT !.run = "drain"]
    /\ UNCHANGED restOfBatcher

\* The drain loop, case packetMax := <-r.buffer.
RunDrainReceive ==
    /\ batcher.built
    /\ batcher.run = "drain"
    /\ Len(batcher.buffer) > 0
    /\ batcher' = appendToBatch([batcher EXCEPT !.buffer = Tail(@)], Head(batcher.buffer))
    /\ UNCHANGED restOfBatcher

\* The drain loop, default: the buffer is empty at this instant; flush and
\* return, and the deferred wg.Done runs.
RunDrainExit ==
    /\ batcher.built
    /\ batcher.run = "drain"
    /\ Len(batcher.buffer) = 0
    /\ batcher' = [batchFlush(batcher) EXCEPT !.run = "exited"]
    /\ UNCHANGED restOfBatcher

\* Close, lines 132-138: under the lock, the first call sets closed and closes
\* stopCh.
RepositoryClose(c) ==
    /\ batcher.built
    /\ batcher.closers[c].pc = "idle"
    /\ BatcherCloseCalls(batcher) < MaxBatcherCloses
    /\ batcher' = [batcher EXCEPT
                     !.closed = TRUE,
                     !.stopCh = "closed",
                     !.closers[c] = [pc |-> IF batcher.closed THEN "closeRunner" ELSE "wait",
                                     alreadyClosed |-> batcher.closed]]
    /\ UNCHANGED restOfBatcher

\* Close, lines 140-142: the first call waits for run.
CloseWait(c) ==
    /\ batcher.built
    /\ batcher.closers[c].pc = "wait"
    /\ batcher.run = "exited"
    /\ batcher' = [batcher EXCEPT !.closers[c].pc = "closeRunner"]
    /\ UNCHANGED restOfBatcher

\* Close, lines 144-148: closeOnce runs runner.Close once, and only that call
\* sees its error.
CloseRunner(c, err) ==
    /\ batcher.built
    /\ batcher.closers[c].pc = "closeRunner"
    /\ batcher.runnerCloses > 0 => err = Nil
    /\ batcher' = [batcher EXCEPT
                     !.runnerCloses = IF @ > 0 THEN @ ELSE 1,
                     !.closeLog = Append(@, [ret |-> err,
                                             alreadyClosed |-> batcher.closers[c].alreadyClosed]),
                     !.closers[c] = IdleBatcherCloser]
    /\ UNCHANGED restOfBatcher

NextBatcher ==
    \/ \E config \in TestConfigs : RepositoryNew(config)
    \/ \E a \in AddCallers, p \in TestPacketMaxes : RepositoryAdd(a, p)
    \/ \E a \in AddCallers : CancelAdd(a)
    \/ \E a \in AddCallers : AddCancelled(a)
    \/ \E a \in AddCallers : AddStopped(a)
    \/ \E a \in AddCallers : AddSend(a)
    \/ RunReceive
    \/ RunTimeout
    \/ RunStop
    \/ RunDrainReceive
    \/ RunDrainExit
    \/ \E c \in CloseCallers : RepositoryClose(c)
    \/ \E c \in CloseCallers : CloseWait(c)
    \/ \E c \in CloseCallers, err \in {Nil, DbCloseErr} : CloseRunner(c, err)

SpecBatcher == Init /\ [][NextBatcher]_vars

\* The items for which Add returned nil, and the items handed to a write.
Accepted(b) == {b.addLog[i].packetMax : i \in {j \in DOMAIN b.addLog : b.addLog[j].ret = Nil}}

Written(b) == {b.written[i] : i \in DOMAIN b.written}

\* C39: in the stop-channel batcher, once a Close call has returned, every
\* PacketMax for which Add returned nil has been handed to a write, and once
\* run has exited the buffer channel holds no accepted item.
C39_AcceptedIsWritten ==
    batcher.built =>
        /\ Len(batcher.closeLog) > 0 => Accepted(batcher) \subseteq Written(batcher)
        /\ batcher.run = "exited" => Len(batcher.buffer) = 0

====
